---- MODULE Spec2Model ----
(***************************************************************************)
(* LongFast propagation simulator of scripts/render_longfast_animation.py  *)
(* and scripts/longfast_animation_lib.py: build_waves, the hop map,        *)
(* select_next_transmitter, simulate_propagation (the dry pass) and the    *)
(* frame loop of main (the render pass).                                   *)
(*                                                                         *)
(* Tower and cell keys are H3 index strings of one fixed width, so their   *)
(* lexicographic order is the order of the numbers that stand for them     *)
(* here.  Time is counted in frame intervals (1 / fps seconds): frame f    *)
(* has frame_time f, and airtime and jitter draws are whole numbers of     *)
(* frame intervals.                                                        *)
(***************************************************************************)
EXTENDS Integers, Sequences, FiniteSets, TLC

\* Bounds of the model.
MaxHopLimit == 2
MaxAirtime == 2
MaxJitter == 1
MaxPopulation == 2
MaxThresholds == 7
MaxTierList == 3
MaxPayload == 160
FrameCap == 24

Towers == {1, 2, 3}
FourTowers == {1, 2, 3, 4}
Cells == {101, 102}
PathLoss == {110, 120}
None == 0

VARIABLES args, waves, tower_hops, rng_tape, sim, sim_trace, rerun, ren, ren_trace, call, pc

vars == <<args, waves, tower_hops, rng_tape, sim, sim_trace, rerun, ren, ren_trace, call, pc>>

----------------------------------------------------------------------------
\* Generic helpers: Python dict and list idioms.

Range(s) == {s[i] : i \in DOMAIN s}

\* d.get(k, default)
Get(d, k, default) == IF k \in DOMAIN d THEN d[k] ELSE default

\* d[k] = v
Put(d, k, v) == [x \in (DOMAIN d) \cup {k} |-> IF x = k THEN v ELSE d[x]]

Max2(a, b) == IF a >= b THEN a ELSE b

Min2(a, b) == IF a <= b THEN a ELSE b

EmptyDict == [x \in {} |-> 0]

RECURSIVE SumOver(_, _)
SumOver(S, f) ==
    IF S = {} THEN 0
    ELSE LET x == CHOOSE y \in S : TRUE
         IN f[x] + SumOver(S \ {x}, f)

\* All orders in which a Python set may be iterated.
Orders(S) == {o \in [1..Cardinality(S) -> S] : \A i, j \in 1..Cardinality(S) : i # j => o[i] # o[j]}

\* The list of one ascending pass over a set of numbers.
RECURSIVE SortedSeq(_)
SortedSeq(S) ==
    IF S = {} THEN <<>>
    ELSE LET m == CHOOSE x \in S : \A y \in S : x <= y
         IN <<m>> \o SortedSeq(S \ {m})

----------------------------------------------------------------------------
\* build_waves (longfast_animation_lib.py) and the hop map of main.

\* ExtendWave without visited.add(neighbor).
RECURSIVE ExtendWaveNoMark(_, _, _)
ExtendWaveNoMark(neighbors, visited, next_wave) ==
    IF neighbors = <<>> THEN [visited |-> visited, next_wave |-> next_wave]
    ELSE LET neighbor == Head(neighbors)
         IN IF neighbor \notin visited
            THEN ExtendWaveNoMark(Tail(neighbors), visited, Append(next_wave, neighbor))
            ELSE ExtendWaveNoMark(Tail(neighbors), visited, next_wave)

\* for neighbor in adjacency.get(tower_h3, []): visit the unvisited ones.
RECURSIVE ExtendWave(_, _, _)
ExtendWave(neighbors, visited, next_wave) ==
    IF neighbors = <<>> THEN [visited |-> visited, next_wave |-> next_wave]
    ELSE LET neighbor == Head(neighbors)
         IN IF neighbor \notin visited
            THEN ExtendWave(Tail(neighbors), visited \cup {neighbor}, Append(next_wave, neighbor))
            ELSE ExtendWave(Tail(neighbors), visited, next_wave)

\* for tower_h3 in current_wave
RECURSIVE ExpandWave(_, _, _, _)
ExpandWave(adjacency, current_wave, visited, next_wave) ==
    IF current_wave = <<>> THEN [visited |-> visited, next_wave |-> next_wave]
    ELSE LET r == ExtendWave(Get(adjacency, Head(current_wave), <<>>), visited, next_wave)
         IN ExpandWave(adjacency, Tail(current_wave), r.visited, r.next_wave)

\* WaveLoop without the break on an empty next wave.
RECURSIVE WaveLoopNoBreak(_, _, _, _, _)
WaveLoopNoBreak(adjacency, remaining, ws, visited, current_wave) ==
    IF remaining <= 0 THEN ws
    ELSE LET r == ExpandWave(adjacency, current_wave, visited, <<>>)
         IN WaveLoopNoBreak(adjacency, remaining - 1, Append(ws, current_wave), r.visited, r.next_wave)

\* for _ in range(hop_limit + 1): append, expand, break on an empty next wave.
RECURSIVE WaveLoop(_, _, _, _, _)
WaveLoop(adjacency, remaining, ws, visited, current_wave) ==
    IF remaining <= 0 THEN ws
    ELSE LET appended == Append(ws, current_wave)
             r == ExpandWave(adjacency, current_wave, visited, <<>>)
         IN IF r.next_wave = <<>> THEN appended
            ELSE WaveLoop(adjacency, remaining - 1, appended, r.visited, r.next_wave)

build_waves(seed_h3, adjacency, hop_limit) ==
    WaveLoop(adjacency, hop_limit + 1, <<>>, {seed_h3}, <<seed_h3>>)

\* tower_hops[tower_h3] = hop_index for hop_index, wave in enumerate(waves):
\* a later wave's assignment would overwrite an earlier one.
HopMap(ws) ==
    [t \in UNION {Range(ws[i]) : i \in DOMAIN ws} |->
        (CHOOSE i \in DOMAIN ws : t \in Range(ws[i])
            /\ \A j \in DOMAIN ws : t \in Range(ws[j]) => j <= i) - 1]

\* adjacency = {tower: [neighbor for neighbor, _ in neighbors]}
Firsts(pairs) == [i \in DOMAIN pairs |-> pairs[i][1]]

AdjacencyOf(tower_visibility) ==
    [t \in DOMAIN tower_visibility |-> Firsts(tower_visibility[t])]

----------------------------------------------------------------------------
\* select_next_transmitter (render_longfast_animation.py).

\* SelectKey without the tower as the second component.
SelectKeyQualityOnly(received_quality, tower_h3) == <<Get(received_quality, tower_h3, 0), 0>>

\* key=lambda tower_h3: (received_quality.get(tower_h3, 0.0), tower_h3)
SelectKey(received_quality, tower_h3) == <<Get(received_quality, tower_h3, 0), tower_h3>>

\* Python's order on pairs.
PairLess(a, b) == a[1] < b[1] \/ (a[1] = b[1] /\ a[2] < b[2])

\* max(iterable, key=...): the first item whose key no later item exceeds.
RECURSIVE PyMax(_, _, _)
PyMax(items, best, received_quality) ==
    IF items = <<>> THEN best
    ELSE PyMax(Tail(items),
               IF PairLess(SelectKey(received_quality, best), SelectKey(received_quality, Head(items)))
               THEN Head(items) ELSE best,
               received_quality)

\* min in the place of max.
RECURSIVE PyMin(_, _, _)
PyMin(items, best, received_quality) ==
    IF items = <<>> THEN best
    ELSE PyMin(Tail(items),
               IF PairLess(SelectKey(received_quality, Head(items)), SelectKey(received_quality, best))
               THEN Head(items) ELSE best,
               received_quality)

select_lowest_quality(eligible, received_quality) ==
    IF eligible = <<>> THEN None
    ELSE PyMin(Tail(eligible), Head(eligible), received_quality)

select_next_transmitter(eligible, received_quality) ==
    IF eligible = <<>> THEN None
    ELSE PyMax(Tail(eligible), Head(eligible), received_quality)

----------------------------------------------------------------------------
\* The frame body shared by simulate_propagation and main's render loop.

\* CommitCells that stores the path loss of the latest transmission.
RECURSIVE CommitCellsKeepsLatest(_, _)
CommitCellsKeepsLatest(cell_losses, received_cells) ==
    IF cell_losses = <<>> THEN received_cells
    ELSE CommitCellsKeepsLatest(Tail(cell_losses),
             Put(received_cells, Head(cell_losses)[1], Head(cell_losses)[2]))

\* received_cells keeps the lowest path loss seen for a cell.
RECURSIVE CommitCells(_, _)
CommitCells(cell_losses, received_cells) ==
    IF cell_losses = <<>> THEN received_cells
    ELSE LET cell_h3 == Head(cell_losses)[1]
             path_loss_db == Head(cell_losses)[2]
         IN CommitCells(Tail(cell_losses),
                IF cell_h3 \notin DOMAIN received_cells \/ path_loss_db < received_cells[cell_h3]
                THEN Put(received_cells, cell_h3, path_loss_db)
                ELSE received_cells)

\* HearOne that keeps the path loss of the first hearing.
HearOneKeepsFirst(st, neighbor, path_loss_db) ==
    IF neighbor \notin st.received_towers
    THEN [st EXCEPT !.received_towers = @ \cup {neighbor},
                    !.received_quality = Put(@, neighbor, path_loss_db)]
    ELSE st

\* A first hearing records the path loss; a later one keeps the larger.
HearOne(st, neighbor, path_loss_db) ==
    IF neighbor \notin st.received_towers
    THEN [st EXCEPT !.received_towers = @ \cup {neighbor},
                    !.received_quality = Put(@, neighbor, path_loss_db)]
    ELSE [st EXCEPT !.received_quality =
                    Put(@, neighbor, Max2(Get(@, neighbor, path_loss_db), path_loss_db))]

RECURSIVE HearPairs(_, _)
HearPairs(audible_pairs, st) ==
    IF audible_pairs = <<>> THEN st
    ELSE HearPairs(Tail(audible_pairs), HearOne(st, Head(audible_pairs)[1], Head(audible_pairs)[2]))

\* Finished with frame_time > end as its test.
FinishedLate(active_transmissions, frame_time) ==
    SelectSeq(active_transmissions, LAMBDA t : frame_time > t.end)

Finished(active_transmissions, frame_time) ==
    SelectSeq(active_transmissions, LAMBDA t : frame_time >= t.end)

StillActive(active_transmissions, frame_time) ==
    SelectSeq(active_transmissions, LAMBDA t : frame_time < t.end)

BlockedTowers(active_transmissions) ==
    UNION {Range(active_transmissions[i].audible_towers) : i \in DOMAIN active_transmissions}

ActiveTowers(active_transmissions) ==
    {active_transmissions[i].tower_h3 : i \in DOMAIN active_transmissions}

\* Eligible without its test of transmitted_towers.
EligibleAllowsDone(order, hops, transmitted_towers, active_towers, blocked_towers) ==
    SelectSeq(order, LAMBDA tower_h3 :
        /\ tower_h3 \in DOMAIN hops
        /\ tower_h3 \notin active_towers
        /\ tower_h3 \notin blocked_towers)

\* Eligible without its test of blocked_towers.
EligibleIgnoresBlocked(order, hops, transmitted_towers, active_towers, blocked_towers) ==
    SelectSeq(order, LAMBDA tower_h3 :
        /\ tower_h3 \in DOMAIN hops
        /\ tower_h3 \notin transmitted_towers
        /\ tower_h3 \notin active_towers)

\* Eligible without its test of tower_hops.
EligibleIgnoresHops(order, hops, transmitted_towers, active_towers, blocked_towers) ==
    SelectSeq(order, LAMBDA tower_h3 :
        /\ tower_h3 \notin transmitted_towers
        /\ tower_h3 \notin active_towers
        /\ tower_h3 \notin blocked_towers)

\* [tower_h3 for tower_h3 in received_towers if ...]; order is the set's
\* iteration order.
Eligible(order, hops, transmitted_towers, active_towers, blocked_towers) ==
    SelectSeq(order, LAMBDA tower_h3 :
        /\ tower_h3 \in DOMAIN hops
        /\ tower_h3 \notin transmitted_towers
        /\ tower_h3 \notin active_towers
        /\ tower_h3 \notin blocked_towers)

\* The iteration orders of the set received_towers that differ in the list
\* Eligible makes of them: the towers that pass its test in any order, then
\* the towers it drops.
IterationOrders(st, hops) ==
    LET live == Range(Eligible(SortedSeq(st.received_towers), hops, st.transmitted_towers,
                               ActiveTowers(st.active_transmissions),
                               BlockedTowers(st.active_transmissions)))
    IN {o \o SortedSeq(st.received_towers \ live) : o \in Orders(live)}

\* NextTower without its test of frame > 0.
NextTowerFromFrameZero(st, order, hops) ==
    select_next_transmitter(
        Eligible(order, hops, st.transmitted_towers,
                 ActiveTowers(st.active_transmissions),
                 BlockedTowers(st.active_transmissions)),
        st.received_quality)

\* The tower selected in a frame whose finalize step has run.
NextTower(st, order, hops) ==
    IF st.frame > 0
    THEN select_next_transmitter(
             Eligible(order, hops, st.transmitted_towers,
                      ActiveTowers(st.active_transmissions),
                      BlockedTowers(st.active_transmissions)),
             st.received_quality)
    ELSE None

\* population.setdefault(h3, 0.0) in place of population.get(h3, 0.0).
PopulationAfterSetDefault(population, cells) ==
    [h3 \in DOMAIN population \cup cells |-> Get(population, h3, 0)]

\* The population map after population.get(h3, 0.0) for every h3 of cells:
\* get returns the default for a missing key and adds no key.
PopulationAfterGet(population, cells) == population

\* PopulationOf with a cell that has no population row counted as 1.
PopulationOfDefaultOne(population, cells) ==
    SumOver(cells, [h3 \in cells |-> Get(population, h3, 1)])

\* sum(population.get(h3, 0.0) for h3 in cells)
PopulationOf(population, cells) ==
    SumOver(cells, [h3 \in cells |-> Get(population, h3, 0)])

----------------------------------------------------------------------------
\* simulate_propagation: the dry pass.

\* The locals of simulate_propagation before its loop.  events is the
\* record of the transmissions started so far (tower, start frame, end).
SimInit(seed_h3) ==
    [frame |-> 0,
     received_cells |-> EmptyDict,
     received_towers |-> {seed_h3},
     received_quality |-> [t \in {seed_h3} |-> 0],
     transmitted_towers |-> {},
     active_transmissions |-> <<>>,
     max_population |-> 0,
     cumulative_population |-> 0,
     draws |-> 0,
     events |-> <<>>,
     returned |-> FALSE]

\* SimCommit that leaves the cells of a finished transmission out.
RECURSIVE SimCommitNoCells(_, _)
SimCommitNoCells(finished, st) ==
    IF finished = <<>> THEN st
    ELSE LET transmission == Head(finished)
             marked == [st EXCEPT !.transmitted_towers = @ \cup {transmission.tower_h3}]
         IN SimCommitNoCells(Tail(finished), HearPairs(transmission.audible_pairs, marked))

\* for transmission in finished: commit cells, mark transmitted, hear.
RECURSIVE SimCommit(_, _)
SimCommit(finished, st) ==
    IF finished = <<>> THEN st
    ELSE LET transmission == Head(finished)
             cells == [st EXCEPT !.received_cells = CommitCells(transmission.cell_losses, @),
                                 !.transmitted_towers = @ \cup {transmission.tower_h3}]
         IN SimCommit(Tail(finished), HearPairs(transmission.audible_pairs, cells))

\* Finalize transmissions that ended in this frame.
SimFinalize(st) ==
    SimCommit(Finished(st.active_transmissions, st.frame),
              [st EXCEPT !.active_transmissions = StillActive(@, st.frame)])

\* active_transmissions.append({...}) for next_tower, with one jitter draw.
SimStart(st, a, next_tower, jitter) ==
    LET audible_pairs == Get(a.tower_visibility, next_tower, <<>>)
        duration == a.airtime_s + jitter
    IN [st EXCEPT
          !.active_transmissions = Append(@,
              [tower_h3 |-> next_tower,
               end |-> st.frame + duration,
               cell_losses |-> Get(a.visible_cells, next_tower, <<>>),
               audible_pairs |-> audible_pairs,
               audible_towers |-> Firsts(audible_pairs)]),
          !.draws = @ + 1,
          !.events = Append(@, [tower_h3 |-> next_tower, start |-> st.frame,
                                end |-> st.frame + duration])]

\* SimHalts asking every received tower to have transmitted, hop or not.
SimHaltsIgnoresHops(st, hops, max_frames) ==
    \/ max_frames # 0 /\ st.frame >= max_frames
    \/ /\ st.frame > 0
       /\ st.active_transmissions = <<>>
       /\ \A tower_h3 \in st.received_towers : tower_h3 \in st.transmitted_towers

\* SimHalts without its test of the received towers.
SimHaltsWhenIdle(st, hops, max_frames) ==
    \/ max_frames # 0 /\ st.frame >= max_frames
    \/ /\ st.frame > 0
       /\ st.active_transmissions = <<>>

\* The loop's exit test after frame += 1.
SimHalts(st, hops, max_frames) ==
    \/ max_frames # 0 /\ st.frame >= max_frames
    \/ /\ st.frame > 0
       /\ st.active_transmissions = <<>>
       /\ \A tower_h3 \in st.received_towers :
              tower_h3 \in st.transmitted_towers \/ tower_h3 \notin DOMAIN hops

\* SimClose that takes the maximum before it counts the frame.
SimCloseLagsPeak(st, a, hops, max_frames) ==
    LET cumulative_population == PopulationOf(a.population, DOMAIN st.received_cells)
        counted == [st EXCEPT !.max_population = Max2(@, st.cumulative_population),
                              !.cumulative_population = cumulative_population,
                              !.frame = @ + 1]
    IN [counted EXCEPT !.returned = SimHalts(counted, hops, max_frames)]

\* The counters, frame += 1 and the exit test that close one iteration.
SimClose(st, a, hops, max_frames) ==
    LET cumulative_population == PopulationOf(a.population, DOMAIN st.received_cells)
        counted == [st EXCEPT !.cumulative_population = cumulative_population,
                              !.max_population = Max2(@, cumulative_population),
                              !.frame = @ + 1]
    IN [counted EXCEPT !.returned = SimHalts(counted, hops, max_frames)]

\* What the dry pass holds after a frame, as compared with the render pass.
OnAir(active_transmissions) ==
    {<<active_transmissions[i].tower_h3, active_transmissions[i].end>> :
        i \in DOMAIN active_transmissions}

Snapshot(st) ==
    [received_towers |-> st.received_towers,
     received_quality |-> st.received_quality,
     received_cells |-> st.received_cells,
     transmitted_towers |-> st.transmitted_towers,
     on_air |-> OnAir(st.active_transmissions),
     cumulative_population |-> st.cumulative_population,
     draws |-> st.draws]

\* random.Random(rng_seed).uniform(0.0, jitter_s): draw number n of the
\* generator seeded with rng_seed.  The values of the sequence are fixed by
\* the seed and unknown to the model: a value is chosen when a draw first
\* reaches it and is the same for every generator with that seed after.
Uniform(n, jitter_s, value) ==
    /\ value \in 0..jitter_s
    /\ n <= Len(rng_tape) => value = rng_tape[n]
    /\ rng_tape' = IF n <= Len(rng_tape) THEN rng_tape ELSE Append(rng_tape, value)

----------------------------------------------------------------------------
\* Tier classifier: assign_tier and build_fine_thresholds.

\* TierFrom with path_loss_db < threshold as its test.
RECURSIVE TierFromStrict(_, _, _)
TierFromStrict(path_loss_db, thresholds, index) ==
    IF index > Len(thresholds) THEN Len(thresholds)
    ELSE IF path_loss_db < thresholds[index] THEN index - 1
    ELSE TierFromStrict(path_loss_db, thresholds, index + 1)

\* The index (from 0) of the first threshold the path loss does not exceed.
RECURSIVE TierFrom(_, _, _)
TierFrom(path_loss_db, thresholds, index) ==
    IF index > Len(thresholds) THEN Len(thresholds)
    ELSE IF path_loss_db <= thresholds[index] THEN index - 1
    ELSE TierFrom(path_loss_db, thresholds, index + 1)

assign_tier(path_loss_db, thresholds) == TierFrom(path_loss_db, thresholds, 1)

\* FineFrom without the append of the last threshold after the loop.
RECURSIVE FineFromDropsLast(_, _)
FineFromDropsLast(thresholds, index) ==
    IF index >= Len(thresholds) THEN <<>>
    ELSE <<thresholds[index], (thresholds[index] + thresholds[index + 1]) \div 2>>
         \o FineFromDropsLast(thresholds, index + 1)

\* Each threshold but the last is followed by its midpoint with the next.
\* The thresholds of the model are even numbers of dB, for which the
\* midpoint (a + b) / 2 is a whole number and \div divides exactly.
RECURSIVE FineFrom(_, _)
FineFrom(thresholds, index) ==
    IF index >= Len(thresholds) THEN <<thresholds[Len(thresholds)]>>
    ELSE <<thresholds[index], (thresholds[index] + thresholds[index + 1]) \div 2>>
         \o FineFrom(thresholds, index + 1)

build_fine_thresholds(thresholds) ==
    IF Len(thresholds) < 2 THEN thresholds ELSE FineFrom(thresholds, 1)

\* build_tier_thresholds' fallback list.
FallbackThresholds == <<112, 118, 124, 130, 136, 142>>

----------------------------------------------------------------------------
\* main: the render loop.

\* main's state before the dry pass is called.
RenderInit(seed_h3) ==
    [frame |-> 0,
     total_frames |-> 0,
     received_cells |-> EmptyDict,
     hop_reached |-> EmptyDict,
     received_towers |-> {seed_h3},
     received_quality |-> [t \in {seed_h3} |-> 0],
     transmitted_towers |-> {},
     received_version |-> 0,
     seen_links |-> {},
     seen_links_version |-> 0,
     active_transmissions |-> <<>>,
     last_state_key |-> <<>>,
     needs_render |-> TRUE,
     active_towers |-> {},
     active_links |-> {},
     effective_cells |-> {},
     effective_hop_reached |-> EmptyDict,
     cumulative_population |-> 0,
     draws |-> 0,
     events |-> <<>>]

\* hop_reached.setdefault(hop_index, set()).add(cell_h3)
AddToHop(hop_reached, hop_index, cell_h3) ==
    Put(hop_reached, hop_index, Get(hop_reached, hop_index, {}) \cup {cell_h3})

\* for cell_h3, tier, hop_index, path_loss_db in transmission["cell_tiers"]
RECURSIVE RenderCommitCells(_, _)
RenderCommitCells(cell_tiers, st) ==
    IF cell_tiers = <<>> THEN st
    ELSE LET cell_h3 == Head(cell_tiers)[1]
             hop_index == Head(cell_tiers)[3]
             path_loss_db == Head(cell_tiers)[4]
         IN RenderCommitCells(Tail(cell_tiers),
                IF cell_h3 \notin DOMAIN st.received_cells
                THEN [st EXCEPT !.received_cells = Put(@, cell_h3, path_loss_db),
                                !.hop_reached = AddToHop(@, hop_index, cell_h3)]
                ELSE IF path_loss_db < st.received_cells[cell_h3]
                THEN [st EXCEPT !.received_cells = Put(@, cell_h3, path_loss_db)]
                ELSE st)

\* SeeLink that counts every audible pair, added or not.
SeeLinkCountsEvery(st, tower_h3, neighbor) ==
    [st EXCEPT !.seen_links = IF neighbor \notin st.transmitted_towers
                              THEN @ \cup {<<tower_h3, neighbor>>} ELSE @,
               !.seen_links_version = @ + 1]

\* seen_links.add((tower, neighbor)), counting the additions that are new.
SeeLink(st, tower_h3, neighbor) ==
    IF neighbor \notin st.transmitted_towers /\ <<tower_h3, neighbor>> \notin st.seen_links
    THEN [st EXCEPT !.seen_links = @ \cup {<<tower_h3, neighbor>>},
                    !.seen_links_version = @ + 1]
    ELSE st

\* for neighbor, path_loss_db in transmission["audible_pairs"]
RECURSIVE RenderHearPairs(_, _, _)
RenderHearPairs(audible_pairs, tower_h3, st) ==
    IF audible_pairs = <<>> THEN st
    ELSE RenderHearPairs(Tail(audible_pairs), tower_h3,
             SeeLink(HearOne(st, Head(audible_pairs)[1], Head(audible_pairs)[2]),
                     tower_h3, Head(audible_pairs)[1]))

\* for transmission in finished_transmissions
RECURSIVE RenderCommit(_, _)
RenderCommit(finished, st) ==
    IF finished = <<>> THEN st
    ELSE LET transmission == Head(finished)
             cells == RenderCommitCells(transmission.cell_tiers, st)
             marked == [cells EXCEPT !.transmitted_towers = @ \cup {transmission.tower_h3},
                                     !.received_version = @ + 1]
         IN RenderCommit(Tail(finished),
                RenderHearPairs(transmission.audible_pairs, transmission.tower_h3, marked))

\* Finalize any transmissions that have ended by this frame; active_towers is
\* taken from the transmissions left on air, before any start.
RenderFinalize(st) ==
    LET left == [st EXCEPT !.active_transmissions = StillActive(@, st.frame)]
        done == RenderCommit(Finished(st.active_transmissions, st.frame), left)
    IN [done EXCEPT !.active_towers = ActiveTowers(done.active_transmissions)]

\* Bucket visible cells by path loss tier.
RECURSIVE Tiered(_, _, _)
Tiered(tower_visible, thresholds, tiered) ==
    IF tower_visible = <<>> THEN tiered
    ELSE LET tier == assign_tier(Head(tower_visible)[2], thresholds)
         IN Tiered(Tail(tower_visible), thresholds,
                   Put(tiered, tier, Append(Get(tiered, tier, <<>>), Head(tower_visible)[1])))

CellTiers(tower_visible, thresholds, hop_index) ==
    [i \in DOMAIN tower_visible |->
        <<tower_visible[i][1], assign_tier(tower_visible[i][2], thresholds),
          hop_index, tower_visible[i][2]>>]

\* RenderStart with a duration that leaves the jitter out.
RenderStartNoJitter(st, a, hops, next_tower, jitter) ==
    [st EXCEPT
       !.active_transmissions = Append(@,
           [tower_h3 |-> next_tower,
            start |-> st.frame,
            end |-> st.frame + a.airtime_s,
            hop |-> Get(hops, next_tower, 0),
            tiered |-> Tiered(Get(a.visible_cells, next_tower, <<>>), a.tier_thresholds_db, EmptyDict),
            cell_tiers |-> CellTiers(Get(a.visible_cells, next_tower, <<>>), a.tier_thresholds_db,
                                     Get(hops, next_tower, 0)),
            audible_pairs |-> Get(a.tower_visibility, next_tower, <<>>),
            audible_towers |-> Firsts(Get(a.tower_visibility, next_tower, <<>>))]),
       !.draws = @ + 1,
       !.events = Append(@, [tower_h3 |-> next_tower, start |-> st.frame,
                             end |-> st.frame + a.airtime_s])]

\* active_transmissions.append({...}) for next_tower, with one jitter draw.
RenderStart(st, a, hops, next_tower, jitter) ==
    LET hop_index == IF next_tower = a.seed_h3 THEN 0 ELSE Get(hops, next_tower, 0)
        tower_visible == Get(a.visible_cells, next_tower, <<>>)
        audible_pairs == Get(a.tower_visibility, next_tower, <<>>)
        duration == a.airtime_s + jitter
    IN [st EXCEPT
          !.active_transmissions = Append(@,
              [tower_h3 |-> next_tower,
               start |-> st.frame,
               end |-> st.frame + duration,
               hop |-> hop_index,
               tiered |-> Tiered(tower_visible, a.tier_thresholds_db, EmptyDict),
               cell_tiers |-> CellTiers(tower_visible, a.tier_thresholds_db, hop_index),
               audible_pairs |-> audible_pairs,
               audible_towers |-> Firsts(audible_pairs)]),
          !.draws = @ + 1,
          !.events = Append(@, [tower_h3 |-> next_tower, start |-> st.frame,
                                end |-> st.frame + duration])]

\* (transmitter, neighbor) for the audible neighbours not yet transmitted.
ActiveLinks(active_transmissions, transmitted_towers) ==
    UNION {{<<active_transmissions[i].tower_h3, neighbor>> :
               neighbor \in Range(active_transmissions[i].audible_towers) \ transmitted_towers} :
           i \in DOMAIN active_transmissions}

\* state_key, needs_render and last_state_key.
RenderKey(st) ==
    LET active_links == ActiveLinks(st.active_transmissions, st.transmitted_towers)
        state_key == <<st.active_towers, st.received_version, active_links, st.seen_links_version>>
    IN [st EXCEPT !.active_links = active_links,
                  !.needs_render = (state_key # st.last_state_key),
                  !.last_state_key = state_key]

\* EffectiveCells that puts a cell under the transmission's hop whether or
\* not it is counted already.
RECURSIVE EffectiveCellsTagsAgain(_, _, _)
EffectiveCellsTagsAgain(cell_tiers, hop_index, eff) ==
    IF cell_tiers = <<>> THEN eff
    ELSE LET cell_h3 == Head(cell_tiers)[1]
         IN EffectiveCellsTagsAgain(Tail(cell_tiers), hop_index,
                [cells |-> eff.cells \cup {cell_h3},
                 hops |-> AddToHop(eff.hops, hop_index, cell_h3)])

\* On-air coverage counts as reached: each new cell goes to its
\* transmission's hop.
RECURSIVE EffectiveCells(_, _, _)
EffectiveCells(cell_tiers, hop_index, eff) ==
    IF cell_tiers = <<>> THEN eff
    ELSE LET cell_h3 == Head(cell_tiers)[1]
         IN EffectiveCells(Tail(cell_tiers), hop_index,
                IF cell_h3 \in eff.cells THEN eff
                ELSE [cells |-> eff.cells \cup {cell_h3},
                      hops |-> AddToHop(eff.hops, hop_index, cell_h3)])

RECURSIVE EffectiveOnAir(_, _)
EffectiveOnAir(active_transmissions, eff) ==
    IF active_transmissions = <<>> THEN eff
    ELSE LET transmission == Head(active_transmissions)
             opened == [eff EXCEPT !.hops = Put(@, transmission.hop, Get(@, transmission.hop, {}))]
         IN EffectiveOnAir(Tail(active_transmissions),
                EffectiveCells(transmission.cell_tiers, transmission.hop, opened))

\* RenderCount that counts the on-air cells alone.
RenderCountOnAirOnly(st, a) ==
    LET eff == EffectiveOnAir(st.active_transmissions, [cells |-> {}, hops |-> EmptyDict])
    IN [st EXCEPT !.effective_cells = eff.cells,
                  !.effective_hop_reached = eff.hops,
                  !.cumulative_population = PopulationOf(a.population, eff.cells),
                  !.frame = @ + 1]

\* Compute counters for the label overlay, then move to the next frame.
RenderCount(st, a) ==
    LET eff == EffectiveOnAir(st.active_transmissions,
                              [cells |-> DOMAIN st.received_cells, hops |-> st.hop_reached])
    IN [st EXCEPT !.effective_cells = eff.cells,
                  !.effective_hop_reached = eff.hops,
                  !.cumulative_population = PopulationOf(a.population, eff.cells),
                  !.frame = @ + 1]

\* total_frames = max(sim_total_frames, 1), cut to --max-frames when given.
TotalFrames(sim_total_frames, max_frames) ==
    IF max_frames # 0 THEN Min2(Max2(sim_total_frames, 1), max_frames)
    ELSE Max2(sim_total_frames, 1)

----------------------------------------------------------------------------
\* Inputs.

\* fetch_tower_visibility lists a cached link under both of its towers with
\* the one path loss of its row, so the map it returns is symmetric.
TowerPairs(towers) == {p \in towers \X towers : p[1] < p[2]}

LinkMaps(towers) == [TowerPairs(towers) -> PathLoss \cup {None}]

LinkLoss(links, a, b) == IF a < b THEN links[<<a, b>>] ELSE links[<<b, a>>]

\* The visibility map that lists, for each tower, the towers heard[t] in
\* ascending order with the path loss loss[<<t, n>>].
VisibilityFrom(heard, loss) ==
    [t \in DOMAIN heard |->
        LET ns == SortedSeq(heard[t])
        IN [i \in DOMAIN ns |-> <<ns[i], loss[<<t, ns[i]>>]>>]]

VisibilityOf(towers, links) ==
    VisibilityFrom([t \in towers |-> {n \in towers \ {t} : LinkLoss(links, t, n) # None}],
                   [p \in towers \X towers |-> IF p[1] = p[2] THEN None ELSE LinkLoss(links, p[1], p[2])])

\* Population per cell; a cell without a row is absent from the map.
Populations == UNION {[S -> 0..MaxPopulation] : S \in SUBSET Cells}

\* What one tower may see: no cell, one cell, or both with different losses.
CellViews ==
    {<<>>, <<<<101, 110>>>>, <<<<101, 120>>, <<102, 110>>>>, <<<<102, 120>>>>}

NoCall == [fn |-> "none"]

\* The inputs of one run: the command line, and what the fetch_* queries
\* return.
Inputs(seeds, visibilities, hop_limits, airtimes, jitters, views, populations, frame_caps) ==
    UNION {{[seed_h3 |-> x[1],
             tower_visibility |-> x[2],
             visible_cells |-> visible_cells,
             population |-> x[6],
             hop_limit |-> x[3],
             airtime_s |-> x[4],
             jitter_s |-> x[5],
             max_frames |-> x[7],
             tier_thresholds_db |-> build_fine_thresholds(FallbackThresholds)] :
                visible_cells \in [DOMAIN x[2] -> views]} :
           x \in seeds \X visibilities \X hop_limits \X airtimes \X jitters \X populations \X frame_caps}

\* The locals of main and of simulate_propagation before any frame.
Fresh(start) ==
    /\ rng_tape = <<>>
    /\ sim = SimInit(args.seed_h3)
    /\ sim_trace = <<>>
    /\ rerun = SimInit(args.seed_h3)
    /\ ren = RenderInit(args.seed_h3)
    /\ ren_trace = <<>>
    /\ call = NoCall
    /\ pc = start

\* The state of main when the dry pass is called: the waves and the hop map
\* are built from the adjacency of tower_visibility.
InitWith(inputs, start) ==
    /\ args \in inputs
    /\ waves = build_waves(args.seed_h3, AdjacencyOf(args.tower_visibility), args.hop_limit)
    /\ tower_hops = HopMap(waves)
    /\ Fresh(start)

SymmetricVisibilities(towers) == {VisibilityOf(towers, links) : links \in LinkMaps(towers)}

\* One way to spread the cells over the towers, and one population.
OneView == {<<<<101, 120>>, <<102, 110>>>>}

OnePopulation == {[c \in Cells |-> c - 100]}

\* Three towers: every seed, link map, hop limit, airtime and frame cut.
Init ==
    InitWith(Inputs(Towers, SymmetricVisibilities(Towers), 0..MaxHopLimit, 0..MaxAirtime,
                    {MaxJitter}, OneView, OnePopulation, {0, 3}), "dry")

\* Four towers: every link map, flooded from tower 1 without jitter.
InitFourTowers ==
    InitWith(Inputs({1}, SymmetricVisibilities(FourTowers), {MaxHopLimit}, 1..MaxAirtime,
                    {0}, OneView, OnePopulation, {0}), "dry")

\* simulate_propagation as a function of its arguments: any visibility map,
\* symmetric or not, and any hop map that holds the seed.
DirectedVisibilities(towers) ==
    {VisibilityFrom(heard, loss) :
        heard \in {h \in [towers -> SUBSET towers] : \A t \in towers : t \notin h[t]},
        loss \in {[p \in towers \X towers |-> 110],
                  [p \in towers \X towers |-> IF p[1] < p[2] THEN 110 ELSE 120]}}

AnyHopMaps(towers, seed_h3) ==
    {[t \in S \cup {seed_h3} |-> IF t = seed_h3 THEN 0 ELSE 1] : S \in SUBSET towers}

InitSim ==
    /\ args \in Inputs({1}, DirectedVisibilities(Towers), {MaxHopLimit}, 0..MaxAirtime,
                       {MaxJitter}, OneView, OnePopulation, {0})
    /\ waves = <<>>
    /\ tower_hops \in AnyHopMaps(Towers, args.seed_h3)
    /\ Fresh("sim")

----------------------------------------------------------------------------
\* The program: the dry pass, then the render loop.

\* One iteration of simulate_propagation's loop on the locals st, giving
\* next: finalize, choose and start a transmitter, count and test for exit.
\* The iteration order of received_towers is any.
SimLoop(st, next, hops, max_frames) ==
    \E finalized \in {SimFinalize(st)} :
    \E order \in IterationOrders(finalized, hops) :
    \E next_tower \in {NextTower(finalized, order, hops)} :
    \E jitter \in 0..args.jitter_s :
        /\ IF next_tower # None
           THEN Uniform(st.draws + 1, args.jitter_s, jitter)
           ELSE jitter = 0 /\ UNCHANGED rng_tape
        /\ \E started \in {IF next_tower # None
                            THEN SimStart(finalized, args, next_tower, jitter)
                            ELSE finalized} :
               /\ next = SimClose(started, args, hops, max_frames)
               /\ args' = [args EXCEPT !.population =
                               PopulationAfterGet(@, DOMAIN started.received_cells)]

\* The dry pass of main: simulate_propagation called with max_frames=0.
DryFrame ==
    /\ pc = "dry"
    /\ sim.frame < FrameCap
    /\ SimLoop(sim, sim', tower_hops, 0)
    /\ sim_trace' = Append(sim_trace, Snapshot(sim'))
    /\ pc' = IF sim'.returned THEN "render" ELSE "dry"
    /\ ren' = IF sim'.returned
              THEN [ren EXCEPT !.total_frames = TotalFrames(sim'.frame, args.max_frames)]
              ELSE ren
    /\ UNCHANGED <<waves, tower_hops, rerun, ren_trace, call>>

\* One iteration of main's frame loop: finalize, choose and start a
\* transmitter, refresh the state key, count.
RenderFrame ==
    /\ pc = "render"
    /\ ren.frame < ren.total_frames
    /\ \E finalized \in {RenderFinalize(ren)} :
       \E order \in IterationOrders(finalized, tower_hops) :
       \E next_tower \in {NextTower(finalized, order, tower_hops)} :
       \E jitter \in 0..args.jitter_s :
           /\ IF next_tower # None
              THEN Uniform(ren.draws + 1, args.jitter_s, jitter)
              ELSE jitter = 0 /\ UNCHANGED rng_tape
           /\ \E started \in {IF next_tower # None
                               THEN RenderStart(finalized, args, tower_hops, next_tower, jitter)
                               ELSE finalized} :
                  /\ ren' = RenderCount(RenderKey(started), args)
                  /\ args' = [args EXCEPT !.population =
                                  PopulationAfterGet(@, ren'.effective_cells)]
    /\ ren_trace' = Append(ren_trace, Snapshot(ren'))
    /\ pc' = IF ren'.frame >= ren'.total_frames THEN "done" ELSE "render"
    /\ UNCHANGED <<waves, tower_hops, sim, sim_trace, rerun, call>>

Next == DryFrame \/ RenderFrame

\* simulate_propagation called on its own with max_frames=0.
SimAlone ==
    /\ pc = "sim"
    /\ sim.frame < FrameCap
    /\ SimLoop(sim, sim', tower_hops, 0)
    /\ sim_trace' = Append(sim_trace, Snapshot(sim'))
    /\ pc' = IF sim'.returned THEN "returned" ELSE "sim"
    /\ UNCHANGED <<waves, tower_hops, rerun, ren, ren_trace, call>>

SpecSim == InitSim /\ [][SimAlone]_vars

\* The loop runs on: no iteration of it blocks.
FairSim == SpecSim /\ WF_vars(SimAlone)

Spec == Init /\ [][Next]_vars

SpecFourTowers == InitFourTowers /\ [][Next]_vars

\* Two calls of simulate_propagation with the same arguments and generators
\* seeded alike: the second call rereads the draws of the first.
InitTwoRuns ==
    InitWith(Inputs(Towers, SymmetricVisibilities(Towers), 0..MaxHopLimit, 0..MaxAirtime,
                    {MaxJitter}, OneView, OnePopulation, {0}), "first")

FirstRun ==
    /\ pc = "first"
    /\ sim.frame < FrameCap
    /\ SimLoop(sim, sim', tower_hops, 0)
    /\ pc' = IF sim'.returned THEN "second" ELSE "first"
    /\ UNCHANGED <<waves, tower_hops, sim_trace, rerun, ren, ren_trace, call>>

SecondRun ==
    /\ pc = "second"
    /\ rerun.frame < FrameCap
    /\ SimLoop(rerun, rerun', tower_hops, 0)
    /\ pc' = IF rerun'.returned THEN "compared" ELSE "second"
    /\ UNCHANGED <<waves, tower_hops, sim, sim_trace, ren, ren_trace, call>>

SpecTwoRuns == InitTwoRuns /\ [][FirstRun \/ SecondRun]_vars

\* The two passes over every spread of the cells and every population, for
\* the link maps that join all three towers to tower 1.
JoinedVisibilities ==
    {VisibilityOf(Towers, links) :
        links \in {l \in [TowerPairs(Towers) -> {110, None}] :
                      Cardinality({p \in TowerPairs(Towers) : l[p] # None}) >= 2}}

InitCoverage ==
    InitWith(Inputs({1}, JoinedVisibilities, {MaxHopLimit}, {MaxAirtime}, {0},
                    CellViews, Populations, {0, 3}), "dry")

SpecCoverage == InitCoverage /\ [][Next]_vars

\* main from the call of build_waves on, for the inputs of InitCoverage:
\* adjacency is the map main derives from tower_visibility.
InitInputs ==
    /\ \E a \in Inputs({1}, JoinedVisibilities, {MaxHopLimit}, {MaxAirtime}, {0},
                       CellViews, Populations, {0, 3}) :
           args = [seed_h3 |-> a.seed_h3,
                   tower_visibility |-> a.tower_visibility,
                   adjacency |-> AdjacencyOf(a.tower_visibility),
                   visible_cells |-> a.visible_cells,
                   population |-> a.population,
                   hop_limit |-> a.hop_limit,
                   airtime_s |-> a.airtime_s,
                   jitter_s |-> a.jitter_s,
                   max_frames |-> a.max_frames,
                   tier_thresholds_db |-> a.tier_thresholds_db]
    /\ waves = <<>>
    /\ tower_hops = EmptyDict
    /\ Fresh("build_waves")

\* waves = build_waves(seed_h3, adjacency, animation.hop_limit) and the hop
\* map in main; build_waves reads adjacency with get and iterates its lists.
MainBuildWaves ==
    /\ pc = "build_waves"
    /\ waves' = build_waves(args.seed_h3, args.adjacency, args.hop_limit)
    /\ tower_hops' = HopMap(waves')
    /\ pc' = "dry"
    /\ UNCHANGED <<args, rng_tape, sim, sim_trace, rerun, ren, ren_trace, call>>

SpecInputs == InitInputs /\ [][MainBuildWaves \/ DryFrame \/ RenderFrame]_vars

\* The two passes with jitter over every spread of the cells and every
\* population of both cells, rendered in full or cut to three frames.
InitPeak ==
    InitWith(Inputs({1}, JoinedVisibilities, {MaxHopLimit}, {1}, {MaxJitter},
                    CellViews, [Cells -> 0..MaxPopulation], {0, 3}), "dry")

SpecPeak == InitPeak /\ [][Next]_vars

\* The two passes when the cache holds no tower link: fetch_tower_visibility
\* gives every tower the empty list.
NoLinks == {VisibilityOf(Towers, [p \in TowerPairs(Towers) |-> None])}

InitNoLinks ==
    InitWith(Inputs({1}, NoLinks, {0, MaxHopLimit}, 0..MaxAirtime, 0..MaxJitter,
                    CellViews, Populations, {0}), "dry")

SpecNoLinks == InitNoLinks /\ [][Next]_vars

----------------------------------------------------------------------------
\* main from the tier thresholds on: the count check, the fine expansion,
\* the locals of the render loop, then the two passes.

\* The anchors of the tier colours need exactly six thresholds.
TierThresholdCount == 6

\* What build_tier_thresholds may return: the values of --tier-thresholds-db
\* in the order given, one at least, or six quantiles, or the fallback list.
ThresholdLists ==
    {[i \in 1..n |-> base + step * (i - 1)] :
        n \in 1..MaxThresholds, base \in {104, 112}, step \in {-2, 0, 6}}
        \cup {FallbackThresholds}

\* Locals that no statement has assigned yet.
NotCreated == [created |-> FALSE]

InitMain ==
    /\ \E a \in Inputs({1}, SymmetricVisibilities(Towers), {MaxHopLimit}, {MaxAirtime},
                       {0}, OneView, OnePopulation, {0}) :
           args = [a EXCEPT !.tier_thresholds_db = <<>>]
    /\ waves = build_waves(args.seed_h3, AdjacencyOf(args.tower_visibility), args.hop_limit)
    /\ tower_hops = HopMap(waves)
    /\ call \in {[fn |-> "build_tier_thresholds", thresholds |-> thresholds] :
                    thresholds \in ThresholdLists}
    /\ rng_tape = <<>>
    /\ sim = NotCreated
    /\ sim_trace = <<>>
    /\ rerun = NotCreated
    /\ ren = NotCreated
    /\ ren_trace = <<>>
    /\ pc = "thresholds"

\* if len(thresholds) != 6, without the case of a longer list.
RejectsShortOnly(thresholds) == Len(thresholds) < TierThresholdCount

\* if len(thresholds) != 6
Rejects(thresholds) == Len(thresholds) # TierThresholdCount

\* main from the check of the thresholds to the call of the dry pass: a
\* RuntimeError ends main, otherwise the thresholds are expanded and the
\* locals of the two passes are created.
CheckThresholds ==
    /\ pc = "thresholds"
    /\ IF Rejects(call.thresholds)
       THEN /\ pc' = "fatal"
            /\ UNCHANGED <<args, sim, rerun, ren>>
       ELSE /\ args' = [args EXCEPT !.tier_thresholds_db = build_fine_thresholds(call.thresholds)]
            /\ sim' = SimInit(args.seed_h3)
            /\ rerun' = SimInit(args.seed_h3)
            /\ ren' = RenderInit(args.seed_h3)
            /\ pc' = "dry"
    /\ UNCHANGED <<waves, tower_hops, rng_tape, sim_trace, ren_trace, call>>

SpecMain == InitMain /\ [][CheckThresholds \/ DryFrame \/ RenderFrame]_vars

----------------------------------------------------------------------------
\* build_waves called on its own: any adjacency map over four towers, each
\* list in ascending order, searched from tower 1.

AscendingLists(towers) == {SortedSeq(S) : S \in SUBSET towers}

InitWaves ==
    /\ \E adjacency \in {adj \in [FourTowers -> AscendingLists(FourTowers)] :
                            \A t \in FourTowers : t \notin Range(adj[t])},
          hop_limit \in 0..(MaxHopLimit + 1) :
          args = [seed_h3 |-> 1, adjacency |-> adjacency, hop_limit |-> hop_limit]
    /\ waves = <<>>
    /\ tower_hops = EmptyDict
    /\ Fresh("waves")

\* waves = build_waves(seed_h3, adjacency, hop_limit) and main's hop map.
BuildWaves ==
    /\ pc = "waves"
    /\ waves' = build_waves(args.seed_h3, args.adjacency, args.hop_limit)
    /\ tower_hops' = HopMap(waves')
    /\ pc' = "built"
    /\ UNCHANGED <<args, rng_tape, sim, sim_trace, rerun, ren, ren_trace, call>>

SpecWaves == InitWaves /\ [][BuildWaves]_vars

----------------------------------------------------------------------------
\* select_next_transmitter called on its own: any list of distinct towers
\* and any received_quality, with or without an entry for each of them.

DistinctLists(towers) == UNION {Orders(S) : S \in SUBSET towers}

InitSelect ==
    /\ \E eligible \in DistinctLists(Towers),
          received_quality \in UNION {[S -> PathLoss \cup {0}] : S \in SUBSET Towers} :
          call = [fn |-> "select_next_transmitter",
                  eligible |-> eligible,
                  received_quality |-> received_quality,
                  result |-> None,
                  returned |-> FALSE]
    /\ args = [seed_h3 |-> 1]
    /\ waves = <<>>
    /\ tower_hops = EmptyDict
    /\ rng_tape = <<>>
    /\ sim = SimInit(1)
    /\ sim_trace = <<>>
    /\ rerun = SimInit(1)
    /\ ren = RenderInit(1)
    /\ ren_trace = <<>>
    /\ pc = "select"

Select ==
    /\ pc = "select"
    /\ call' = [call EXCEPT !.result = select_next_transmitter(call.eligible, call.received_quality),
                            !.returned = TRUE]
    /\ pc' = "selected"
    /\ UNCHANGED <<args, waves, tower_hops, rng_tape, sim, sim_trace, rerun, ren, ren_trace>>

SpecSelect == InitSelect /\ [][Select]_vars

----------------------------------------------------------------------------
\* assign_tier called on its own: any list of thresholds, ascending or not,
\* empty or not, and a path loss below, at, between and above them.

ExampleThresholds == <<100, 110, 120, 130, 140, 150>>

TierLists ==
    UNION {[1..n -> {100, 110, 120}] : n \in 0..MaxTierList} \cup {ExampleThresholds}

TierLosses == {95, 100, 105, 110, 115, 120, 125, 999}

\* The other variables of a call that touches none of them.
Idle ==
    /\ args = [seed_h3 |-> 1]
    /\ waves = <<>>
    /\ tower_hops = EmptyDict
    /\ rng_tape = <<>>
    /\ sim = SimInit(1)
    /\ sim_trace = <<>>
    /\ rerun = SimInit(1)
    /\ ren = RenderInit(1)
    /\ ren_trace = <<>>

InitTier ==
    /\ \E thresholds \in TierLists, path_loss_db \in TierLosses :
          call = [fn |-> "assign_tier",
                  path_loss_db |-> path_loss_db,
                  thresholds |-> thresholds,
                  result |-> None,
                  returned |-> FALSE]
    /\ Idle
    /\ pc = "tier"

AssignTier ==
    /\ pc = "tier"
    /\ call' = [call EXCEPT !.result = assign_tier(call.path_loss_db, call.thresholds),
                            !.returned = TRUE]
    /\ pc' = "tiered"
    /\ UNCHANGED <<args, waves, tower_hops, rng_tape, sim, sim_trace, rerun, ren, ren_trace>>

SpecTier == InitTier /\ [][AssignTier]_vars

----------------------------------------------------------------------------
\* build_fine_thresholds called on its own: any list of thresholds,
\* ascending or not, empty or not.

FineLists ==
    UNION {[1..n -> {100, 104, 110, 120}] : n \in 0..MaxTierList}
        \cup {ExampleThresholds, FallbackThresholds}

InitFine ==
    /\ \E thresholds \in FineLists :
          call = [fn |-> "build_fine_thresholds",
                  thresholds |-> thresholds,
                  result |-> <<>>,
                  returned |-> FALSE]
    /\ Idle
    /\ pc = "fine"

\* fine = build_fine_thresholds(thresholds): the list passed stays as it is.
BuildFine ==
    /\ pc = "fine"
    /\ call' = [call EXCEPT !.result = build_fine_thresholds(call.thresholds),
                            !.returned = TRUE]
    /\ pc' = "expanded"
    /\ UNCHANGED <<args, waves, tower_hops, rng_tape, sim, sim_trace, rerun, ren, ren_trace>>

SpecFine == InitFine /\ [][BuildFine]_vars

----------------------------------------------------------------------------
\* estimate_airtime_seconds.  The airtime is a real number; the model keeps
\* it exact, as the number of quarter symbols and the symbol duration
\* 2^SF / bandwidth_hz as a fraction:
\*     airtime = (quarter_symbols / 4) * (two_to_sf / bandwidth_hz).

\* 2 * n where the code has 2**n.
Pow2Linear(n) == 2 * n

RECURSIVE Pow2(_)
Pow2(n) == IF n <= 0 THEN 1 ELSE 2 * Pow2(n - 1)

\* math.ceil(numerator / denominator) rounded towards zero instead.
CeilDivTruncates(numerator, denominator) ==
    IF numerator >= 0 THEN numerator \div denominator
    ELSE -((-numerator) \div denominator)

\* math.ceil(numerator / denominator) for a positive denominator.
CeilDiv(numerator, denominator) == -((-numerator) \div denominator)

\* low_data_rate_opt = 1 if symbol_duration > 0.016 else 0, with
\* symbol_duration = 2^SF / bandwidth_hz and 0.016 = 16 / 1000.
LowDataRateOpt(radio) ==
    IF Pow2(radio.spreading_factor) * 1000 > 16 * (radio.bandwidth_khz * 1000) THEN 1 ELSE 0

\* cr_value = max(min(radio.coding_rate, 8), 5) - 4
CrValue(radio) == Max2(Min2(radio.coding_rate, 8), 5) - 4

PayloadTerm(radio) ==
    LET numerator == 8 * radio.payload_bytes - 4 * radio.spreading_factor + 28
                         + 16 * radio.crc_enabled - 20 * radio.implicit_header
        denominator == 4 * (radio.spreading_factor - 2 * LowDataRateOpt(radio))
    IN Max2(CeilDiv(numerator, denominator) * (CrValue(radio) + 4), 0)

\* (preamble_symbols + 4.25 + 8 + payload_term) * symbol_duration
estimate_airtime_seconds(radio) ==
    [quarter_symbols |-> 4 * radio.preamble_symbols + 17 + 4 * (8 + PayloadTerm(radio)),
     two_to_sf |-> Pow2(radio.spreading_factor),
     bandwidth_hz |-> radio.bandwidth_khz * 1000]

\* The radio settings of the command line (any coding rate is accepted and
\* limited to 5..8), with the preamble, CRC and header flags of RadioConfig.
RadioConfigs ==
    [spreading_factor : 7..12,
     bandwidth_khz : {8, 125, 250, 500},
     coding_rate : 4..9,
     payload_bytes : 0..MaxPayload,
     preamble_symbols : {6, 8},
     crc_enabled : {0, 1},
     implicit_header : {0, 1}]

InitAirtime ==
    /\ \E radio \in RadioConfigs :
          call = [fn |-> "estimate_airtime_seconds",
                  radio |-> radio,
                  result |-> None,
                  returned |-> FALSE]
    /\ Idle
    /\ pc = "airtime"

\* airtime_s = estimate_airtime_seconds(radio)
EstimateAirtime ==
    /\ pc = "airtime"
    /\ call' = [call EXCEPT !.result = estimate_airtime_seconds(call.radio),
                            !.returned = TRUE]
    /\ pc' = "estimated"
    /\ UNCHANGED <<args, waves, tower_hops, rng_tape, sim, sim_trace, rerun, ren, ren_trace>>

SpecAirtime == InitAirtime /\ [][EstimateAirtime]_vars

\* estimate_airtime_seconds called for a radio and again for the same radio
\* one spreading factor up, with the coding rates 4/5..4/8.
InitAirtimePair ==
    /\ \E radio \in {r \in RadioConfigs : r.coding_rate \in 5..8 /\ r.spreading_factor < 12} :
          call = [fn |-> "estimate_airtime_seconds",
                  radio |-> radio,
                  result |-> None,
                  next_result |-> None,
                  returned |-> FALSE]
    /\ Idle
    /\ pc = "airtime"

EstimateNext ==
    /\ pc = "estimated"
    /\ "next_result" \in DOMAIN call
    /\ call' = [call EXCEPT !.next_result =
                   estimate_airtime_seconds(
                       [call.radio EXCEPT !.spreading_factor = @ + 1])]
    /\ pc' = "compared"
    /\ UNCHANGED <<args, waves, tower_hops, rng_tape, sim, sim_trace, rerun, ren, ren_trace>>

SpecAirtimePair == InitAirtimePair /\ [][EstimateAirtime \/ EstimateNext]_vars

----------------------------------------------------------------------------
\* build_schedule.  Times are whole numbers of one unit; the draws of
\* random.uniform are arguments: one jitter per tower, one gap per wave.

\* ScheduleWave with every tower of the wave starting at the wave's start.
RECURSIVE ScheduleWaveAllAtOnce(_, _, _, _, _)
ScheduleWaveAllAtOnce(wave, jitters, current_time, hop_index, airtime_s) ==
    IF wave = <<>> THEN [entries |-> <<>>, current_time |-> current_time, jitters |-> jitters]
    ELSE LET duration == airtime_s + Head(jitters)
             start_time == current_time
             end_time == start_time + duration
             rest == ScheduleWaveAllAtOnce(Tail(wave), Tail(jitters), current_time, hop_index, airtime_s)
         IN [rest EXCEPT !.entries = <<<<Head(wave), start_time, end_time, hop_index>>>> \o @,
                         !.current_time = Max2(@, end_time)]

\* for tower_h3 in wave: one entry after the other from current_time.
RECURSIVE ScheduleWave(_, _, _, _, _)
ScheduleWave(wave, jitters, current_time, hop_index, airtime_s) ==
    IF wave = <<>> THEN [entries |-> <<>>, current_time |-> current_time, jitters |-> jitters]
    ELSE LET duration == airtime_s + Head(jitters)
             start_time == current_time
             end_time == start_time + duration
             rest == ScheduleWave(Tail(wave), Tail(jitters), end_time, hop_index, airtime_s)
         IN [rest EXCEPT !.entries = <<<<Head(wave), start_time, end_time, hop_index>>>> \o @]

\* for hop_index, wave in enumerate(waves, start=1): the entries of the
\* wave, then the pacing gap.  drawn tells that every gap is a value its
\* uniform(0.0, wave_max_s - wave_time) can return (0 where none is drawn).
RECURSIVE ScheduleWaves(_, _, _, _, _, _, _)
ScheduleWaves(ws, hop_index, current_time, jitters, gaps, airtime_s, config) ==
    IF ws = <<>> THEN [schedule |-> <<>>, drawn |-> TRUE]
    ELSE LET wave_start == current_time
             w == ScheduleWave(Head(ws), jitters, current_time, hop_index, airtime_s)
             wave_time == IF Head(ws) = <<>> THEN 0 ELSE w.current_time - wave_start
             paced == IF wave_time < config.wave_min_s
                      THEN w.current_time + (config.wave_min_s - wave_time)
                      ELSE IF wave_time < config.wave_max_s
                      THEN w.current_time + Head(gaps)
                      ELSE w.current_time
             drawn == IF wave_time >= config.wave_min_s /\ wave_time < config.wave_max_s
                      THEN Head(gaps) <= config.wave_max_s - wave_time
                      ELSE Head(gaps) = 0
             rest == ScheduleWaves(Tail(ws), hop_index + 1, paced, w.jitters, Tail(gaps),
                                   airtime_s, config)
         IN [schedule |-> w.entries \o rest.schedule, drawn |-> drawn /\ rest.drawn]

build_schedule(ws, airtime_s, config, jitters, gaps) ==
    ScheduleWaves(ws, 1, 0, jitters, gaps, airtime_s, config)

RECURSIVE Flatten(_)
Flatten(ws) == IF ws = <<>> THEN <<>> ELSE Head(ws) \o Flatten(Tail(ws))

\* The pacing of the waves: none, a minimum below the maximum, and a
\* minimum above the maximum.
Pacings == {[wave_min_s |-> 0, wave_max_s |-> 0],
            [wave_min_s |-> 0, wave_max_s |-> 5],
            [wave_min_s |-> 3, wave_max_s |-> 5],
            [wave_min_s |-> 3, wave_max_s |-> 2]}

\* build_schedule called with the waves build_waves gives for any adjacency
\* map over three towers, searched from tower 1.
InitSchedule ==
    /\ \E adjacency \in {adj \in [Towers -> AscendingLists(Towers)] :
                            \A t \in Towers : t \notin Range(adj[t])},
          hop_limit \in 0..MaxHopLimit :
          args = [seed_h3 |-> 1, adjacency |-> adjacency, hop_limit |-> hop_limit]
    /\ waves = build_waves(args.seed_h3, args.adjacency, args.hop_limit)
    /\ tower_hops = HopMap(waves)
    /\ \E airtime_s \in 1..MaxAirtime, jitter_s \in 0..MaxJitter, pacing \in Pacings :
          call = [fn |-> "build_schedule",
                  airtime_s |-> airtime_s,
                  config |-> [jitter_s |-> jitter_s,
                              wave_min_s |-> pacing.wave_min_s,
                              wave_max_s |-> pacing.wave_max_s],
                  result |-> <<>>,
                  returned |-> FALSE]
    /\ rng_tape = <<>>
    /\ sim = SimInit(1)
    /\ sim_trace = <<>>
    /\ rerun = SimInit(1)
    /\ ren = RenderInit(1)
    /\ ren_trace = <<>>
    /\ pc = "schedule"

\* schedule = build_schedule(waves, airtime_s, config), for any values the
\* module-level generator may return.
BuildSchedule ==
    /\ pc = "schedule"
    /\ \E jitters \in [1..Len(Flatten(waves)) -> 0..call.config.jitter_s],
          gaps \in [1..Len(waves) -> 0..call.config.wave_max_s] :
          \E built \in {build_schedule(waves, call.airtime_s, call.config, jitters, gaps)} :
              /\ built.drawn
              /\ call' = [call EXCEPT !.result = built.schedule, !.returned = TRUE]
    /\ pc' = "scheduled"
    /\ UNCHANGED <<args, waves, tower_hops, rng_tape, sim, sim_trace, rerun, ren, ren_trace>>

SpecSchedule == InitSchedule /\ [][BuildSchedule]_vars

----------------------------------------------------------------------------
\* Properties of the two passes.

StartsOnce(events) ==
    \A i, j \in DOMAIN events : events[i].tower_h3 = events[j].tower_h3 => i = j

NotOnAirAndDone(st) ==
    ActiveTowers(st.active_transmissions) \cap st.transmitted_towers = {}

\* C1: in the dry pass and in the render loop, after any number of frames
\* every tower has started at most one transmission, and no tower is both the
\* transmitter of an active transmission and a member of transmitted_towers.
C1_TransmitsAtMostOnce ==
    /\ StartsOnce(sim.events) /\ NotOnAirAndDone(sim)
    /\ StartsOnce(ren.events) /\ NotOnAirAndDone(ren)

\* Both passes ran to their end with every tower started, and the render
\* loop holds a transmission on air beside a finished one.
C1_Witness ==
    /\ pc = "render"
    /\ Len(sim.events) = Cardinality(DOMAIN args.tower_visibility)
    /\ ren.active_transmissions # <<>>
    /\ ren.transmitted_towers # {}

\* C3: with equally seeded generators, after each rendered frame f the render
\* loop's received_towers, transmitted_towers and on-air transmissions (tower
\* and end) are those of the dry pass after its frame f, and both passes have
\* made the same draws, one for each transmission started.
C3_RenderFollowsDry ==
    /\ \A f \in DOMAIN ren_trace :
         /\ f \in DOMAIN sim_trace
         /\ ren_trace[f].received_towers = sim_trace[f].received_towers
         /\ ren_trace[f].transmitted_towers = sim_trace[f].transmitted_towers
         /\ ren_trace[f].on_air = sim_trace[f].on_air
         /\ ren_trace[f].draws = sim_trace[f].draws
    /\ ren.draws = Len(ren.events)
    /\ sim.draws = Len(sim.events)
    /\ Len(ren.events) <= Len(sim.events)
    /\ ren.events = SubSeq(sim.events, 1, Len(ren.events))

\* An untruncated render of several transmissions, one with a non-zero jitter.
C3_Witness ==
    /\ pc = "done"
    /\ ren.frame = sim.frame
    /\ Len(ren.events) >= 2
    /\ \E i \in DOMAIN ren.events : ren.events[i].end - ren.events[i].start > args.airtime_s

\* The towers at most k links from the seed, by repeated one-link extension.
RECURSIVE WithinLinks(_, _, _)
WithinLinks(reached, tower_visibility, k) ==
    IF k = 0 THEN reached
    ELSE WithinLinks(reached \cup {n \in DOMAIN tower_visibility : \E t \in reached :
                                      \E i \in DOMAIN tower_visibility[t] : tower_visibility[t][i][1] = n},
                     tower_visibility, k - 1)

\* C5: with the hop map built by build_waves from the simulator's own
\* tower_visibility, the uncapped dry pass returns with transmitted_towers
\* equal to the towers that have a hop assignment, which are the towers
\* within hop_limit links of the seed, each started once.
C5_FloodExhaustsHopSet ==
    sim.returned =>
        /\ sim.transmitted_towers = DOMAIN tower_hops
        /\ sim.transmitted_towers = WithinLinks({args.seed_h3}, args.tower_visibility, args.hop_limit)
        /\ {sim.events[i].tower_h3 : i \in DOMAIN sim.events} = DOMAIN tower_hops
        /\ Len(sim.events) = Cardinality(DOMAIN tower_hops)

\* The dry pass returned with a tower that was reached beyond the hop limit.
C5_Witness ==
    /\ sim.returned
    /\ Cardinality(DOMAIN tower_hops) = 2
    /\ sim.received_towers \ DOMAIN tower_hops # {}

SymmetricVisibility(tower_visibility) ==
    \A a, b \in DOMAIN tower_visibility :
        (\E i \in DOMAIN tower_visibility[a] : tower_visibility[a][i][1] = b)
            <=> (\E i \in DOMAIN tower_visibility[b] : tower_visibility[b][i][1] = a)

\* active_transmissions is in order of start: the earlier of two entries was
\* on air, after the finalize step, in the frame that started the later.
StartsClear(active_transmissions) ==
    \A i, j \in DOMAIN active_transmissions : i < j =>
        /\ active_transmissions[j].tower_h3 # active_transmissions[i].tower_h3
        /\ active_transmissions[j].tower_h3 \notin Range(active_transmissions[i].audible_towers)

NoAudiblePairOnAir(active_transmissions) ==
    \A i, j \in DOMAIN active_transmissions : i # j =>
        active_transmissions[j].tower_h3 \notin Range(active_transmissions[i].audible_towers)

\* C10: a tower never starts in a frame in which, after the finalize step, it
\* is on air or audible to a transmission still on air; and with a symmetric
\* tower_visibility no two transmissions on air together belong to towers
\* audible to each other.
C10_NoStartWhileBlocked ==
    /\ StartsClear(sim.active_transmissions)
    /\ StartsClear(ren.active_transmissions)
    /\ SymmetricVisibility(args.tower_visibility) =>
           /\ NoAudiblePairOnAir(sim.active_transmissions)
           /\ NoAudiblePairOnAir(ren.active_transmissions)

\* Two transmissions are on air together in the render loop while a third
\* tower, reached and not yet done, is held back by one of them.
C10_Witness ==
    /\ Len(ren.active_transmissions) = 2
    /\ \E t \in ren.received_towers \ ren.transmitted_towers :
         /\ t \in DOMAIN tower_hops
         /\ t \in BlockedTowers(ren.active_transmissions)
         /\ t \notin ActiveTowers(ren.active_transmissions)

\* C2: two runs of simulate_propagation with the same arguments and the
\* same sequence of draws give the same transmission events (tower, start
\* frame, end), the same frame count and the same max population, whatever
\* the iteration orders of received_towers in the two runs.
C2_RunsAgree ==
    pc = "compared" =>
        /\ rerun.events = sim.events
        /\ rerun.frame = sim.frame
        /\ rerun.max_population = sim.max_population

\* Both runs ended after three transmissions, two of them by towers that
\* heard the seed with one path loss and were eligible together.
C2_Witness ==
    /\ pc = "compared"
    /\ Len(rerun.events) = 3
    /\ \E a, b \in DOMAIN tower_hops :
         /\ a # b /\ a # args.seed_h3 /\ b # args.seed_h3
         /\ \E l \in PathLoss :
              /\ \E i \in DOMAIN args.tower_visibility[args.seed_h3] :
                    args.tower_visibility[args.seed_h3][i] = <<a, l>>
              /\ \E i \in DOMAIN args.tower_visibility[args.seed_h3] :
                    args.tower_visibility[args.seed_h3][i] = <<b, l>>
         /\ \A i \in DOMAIN args.tower_visibility[a] : args.tower_visibility[a][i][1] # b

\* The exit condition, read from what the pass held at the end of a frame.
HaltCondition(snapshot, hops) ==
    /\ snapshot.on_air = {}
    /\ \A t \in snapshot.received_towers :
           t \in snapshot.transmitted_towers \/ t \notin DOMAIN hops

HaltsAtFirst ==
    /\ sim.frame = Len(sim_trace)
    /\ sim.returned <=> pc = "returned"
    /\ \A k \in DOMAIN sim_trace :
           HaltCondition(sim_trace[k], tower_hops) <=> (k = Len(sim_trace) /\ sim.returned)
    /\ sim.returned => sim.frame >= 2

\* C4: for any visibility map and any hop map that holds the seed, with
\* non-negative airtime and jitter, the uncapped dry pass halts, and it halts
\* at the first frame, later than frame 0, at whose end nothing is on air and
\* every received tower has transmitted or has no hop assignment.
C4_HaltsAtFirstQuietFrame == <>(pc = "returned") /\ []HaltsAtFirst

\* The pass returned after several frames, having left a received tower
\* that has no hop assignment untransmitted, under an asymmetric map.
C4_Witness ==
    /\ pc = "returned"
    /\ sim.frame >= 5
    /\ sim.received_towers \ (DOMAIN tower_hops \cup sim.transmitted_towers) # {}
    /\ ~SymmetricVisibility(args.tower_visibility)

NonDecreasing(trace) ==
    \A f \in DOMAIN trace :
        f > 1 => trace[f].cumulative_population >= trace[f - 1].cumulative_population

\* C6: with non-negative population values the cumulative population of
\* frame f+1 is never below that of frame f, in the dry pass (received cells)
\* and in the render loop (received and on-air cells).
C6_PopulationNeverFalls ==
    NonDecreasing(sim_trace) /\ NonDecreasing(ren_trace)

\* A finished render in which the counter rose, then stayed, over a finalize
\* that moved on-air cells into received_cells.
C6_Witness ==
    /\ pc = "done"
    /\ ren.cumulative_population > 0
    /\ \E f \in DOMAIN ren_trace :
         /\ f > 1
         /\ ren_trace[f].cumulative_population = ren_trace[f - 1].cumulative_population
         /\ DOMAIN ren_trace[f].received_cells # DOMAIN ren_trace[f - 1].received_cells
    /\ \E f \in DOMAIN sim_trace :
         f > 1 /\ sim_trace[f].cumulative_population > sim_trace[f - 1].cumulative_population

----------------------------------------------------------------------------
\* Properties of build_waves.

\* The towers at most k links from the start set in an adjacency map.
RECURSIVE Ball(_, _, _)
Ball(reached, adjacency, k) ==
    IF k = 0 THEN reached
    ELSE Ball(reached \cup UNION {Range(adjacency[t]) : t \in reached \cap DOMAIN adjacency},
              adjacency, k - 1)

\* The length of a shortest path from the seed, or -1 when there is none.
Distance(seed_h3, adjacency, t) ==
    LET n == Cardinality(DOMAIN adjacency)
    IN IF t \notin Ball({seed_h3}, adjacency, n) THEN -1
       ELSE CHOOSE k \in 0..n :
              /\ t \in Ball({seed_h3}, adjacency, k)
              /\ \A j \in 0..n : j < k => t \notin Ball({seed_h3}, adjacency, j)

ExampleAdjacency == <<<<2, 3>>, <<1, 4>>, <<1>>, <<2>>>>

\* C7: build_waves places no tower twice, and a tower is in wave k exactly
\* when its shortest-path distance from the seed is k and k <= hop_limit; the
\* adjacency {A:[B,C], B:[A,D], C:[A], D:[B]} with seed A and hop_limit 3
\* gives [[A],[B,C],[D]] and the hop map {A:0, B:1, C:1, D:2}.
C7_WavesAreDistances ==
    pc = "built" =>
        /\ \A i, j \in DOMAIN waves : \A m \in DOMAIN waves[i], n \in DOMAIN waves[j] :
               waves[i][m] = waves[j][n] => i = j /\ m = n
        /\ \A t \in DOMAIN args.adjacency : \A k \in 0..(MaxHopLimit + 1) :
               (k + 1 \in DOMAIN waves /\ t \in Range(waves[k + 1]))
                   <=> (Distance(args.seed_h3, args.adjacency, t) = k /\ k <= args.hop_limit)
        /\ \A t \in DOMAIN tower_hops : tower_hops[t] = Distance(args.seed_h3, args.adjacency, t)
        /\ (args.adjacency = ExampleAdjacency /\ args.hop_limit = 3) =>
               /\ waves = <<<<1>>, <<2, 3>>, <<4>>>>
               /\ tower_hops = (1 :> 0 @@ 2 :> 1 @@ 3 :> 1 @@ 4 :> 2)

\* The waves of the example adjacency under hop_limit 3.
C7_Witness ==
    /\ pc = "built"
    /\ args.adjacency = ExampleAdjacency
    /\ args.hop_limit = 3
    /\ Len(waves) = 3

\* C8: for hop_limit >= 0 build_waves returns between 1 and hop_limit + 1
\* waves, the first is [seed], none is empty, the expansion stops at the first
\* frontier without an unvisited neighbour, and a tower not reachable within
\* hop_limit links is in no wave.
C8_WaveCount ==
    pc = "built" =>
        /\ Len(waves) >= 1
        /\ Len(waves) <= args.hop_limit + 1
        /\ waves[1] = <<args.seed_h3>>
        /\ \A i \in DOMAIN waves : waves[i] # <<>>
        /\ Len(waves) < args.hop_limit + 1 =>
               Ball({args.seed_h3}, args.adjacency, Len(waves))
                   = Ball({args.seed_h3}, args.adjacency, Len(waves) - 1)
        /\ UNION {Range(waves[i]) : i \in DOMAIN waves}
               = Ball({args.seed_h3}, args.adjacency, args.hop_limit)

\* The graph ran out before the hop limit, with a tower left unreachable.
C8_Witness ==
    /\ pc = "built"
    /\ Len(waves) = 2
    /\ args.hop_limit = 3
    /\ DOMAIN args.adjacency \ DOMAIN tower_hops # {}

----------------------------------------------------------------------------
\* Properties of select_next_transmitter.

Quality(t) == Get(call.received_quality, t, 0)

HighestQuality ==
    /\ call.result \in Range(call.eligible)
    /\ \A t \in Range(call.eligible) : Quality(t) <= Quality(call.result)

\* C9 as claimed: the chosen tower has the highest received_quality of the
\* eligible towers, and of those tied on it the smallest key.
C9_Claimed_SmallestKeyWins ==
    (call.returned /\ call.eligible # <<>>) =>
        /\ HighestQuality
        /\ \A t \in Range(call.eligible) : Quality(t) = Quality(call.result) => call.result <= t

\* C9 as amended: the chosen tower has the highest received_quality of the
\* eligible towers, and of those tied on it the largest key, whatever the
\* order of the list.
C9_LargestKeyWins ==
    (call.returned /\ call.eligible # <<>>) =>
        /\ HighestQuality
        /\ \A t \in Range(call.eligible) : Quality(t) = Quality(call.result) => call.result >= t

\* Two towers tied on the highest quality, the smaller key first in the
\* list, beside a tower of lower quality.
C9_Witness ==
    /\ call.returned
    /\ Len(call.eligible) = 3
    /\ call.result = 3
    /\ call.eligible[1] = 2
    /\ Quality(2) = Quality(3)
    /\ Quality(1) < Quality(3)

----------------------------------------------------------------------------
\* Properties of the frame's start step.

\* The towers free to start once the frame's finalize step has run.
FreeToStart(finalized, hops) ==
    {t \in finalized.received_towers :
        /\ t \in DOMAIN hops
        /\ t \notin finalized.transmitted_towers
        /\ \A i \in DOMAIN finalized.active_transmissions :
               /\ finalized.active_transmissions[i].tower_h3 # t
               /\ t \notin Range(finalized.active_transmissions[i].audible_towers)}

\* The number of transmissions a frame of a pass started.
StartsOneIfAny(before, finalized, after, hops) ==
    Len(after.events) - Len(before.events) =
        IF before.frame > 0 /\ FreeToStart(finalized, hops) # {} THEN 1 ELSE 0

NoStartAtFrameZero(events) ==
    \A i \in DOMAIN events : events[i].start > 0

OneStartPerFrame(events) ==
    \A i, j \in DOMAIN events : events[i].start = events[j].start => i = j

\* C11: no transmission starts on frame 0, at most one starts in any later
\* frame, and exactly one starts in a frame after frame 0 whose eligible set
\* is not empty, in the dry pass and in the render loop.
C11_OneStartPerFrame ==
    /\ [](NoStartAtFrameZero(sim.events) /\ OneStartPerFrame(sim.events))
    /\ [](NoStartAtFrameZero(ren.events) /\ OneStartPerFrame(ren.events))
    /\ [][DryFrame => StartsOneIfAny(sim, SimFinalize(sim), sim', tower_hops)]_vars
    /\ [][RenderFrame => StartsOneIfAny(ren, RenderFinalize(ren), ren', tower_hops)]_vars

\* A finished render with a frame that started nothing between two frames
\* that each started a transmission.
C11_Witness ==
    /\ pc = "done"
    /\ Len(ren.events) = 3
    /\ \E i \in DOMAIN ren.events :
         /\ i > 1
         /\ ren.events[i].start > ren.events[i - 1].start + 1

\* The frame whose finalize step ends a transmission: the first frame after
\* its start whose frame_time has reached its end.
FinalizeFrame(event) == Max2(event.end, event.start + 1)

StartedWithHop(events, hops) ==
    \A i \in DOMAIN events : events[i].tower_h3 \in DOMAIN hops

\* The dry pass returned in the frame that finalized its last transmission.
EndsWithLastFinalize(st) ==
    /\ st.events # <<>>
    /\ \A i \in DOMAIN st.events : FinalizeFrame(st.events[i]) + 1 <= st.frame
    /\ \E i \in DOMAIN st.events : FinalizeFrame(st.events[i]) + 1 = st.frame

\* C12: a tower without a hop assignment never starts a transmission, also
\* once it is in received_towers, and it does not hold back the return of the
\* dry pass, which comes in the frame that finalizes the last transmission;
\* with hop_limit = 0 the seed alone transmits and the run ends in the frame
\* that finalizes the seed's transmission.
C12_HoplessTowersStaySilent ==
    /\ StartedWithHop(sim.events, tower_hops)
    /\ StartedWithHop(ren.events, tower_hops)
    /\ sim.returned => EndsWithLastFinalize(sim)
    /\ (sim.returned /\ args.hop_limit = 0) =>
           /\ Len(sim.events) = 1
           /\ sim.events[1].tower_h3 = args.seed_h3
           /\ sim.transmitted_towers = {args.seed_h3}
           /\ sim.frame = FinalizeFrame(sim.events[1]) + 1

\* The dry pass returned under hop_limit 0 with both neighbours of the seed
\* in received_towers.
C12_Witness ==
    /\ sim.returned
    /\ args.hop_limit = 0
    /\ Cardinality(sim.received_towers) = 3
    /\ Len(sim.events) = 1

----------------------------------------------------------------------------
\* Properties of the render loop's state key.

\* A step of the render loop over a frame f >= 1 that finalizes nothing,
\* starts nothing and leaves the pending links of frame f - 1 as they were.
QuietFrame ==
    /\ RenderFrame
    /\ ren.frame >= 1
    /\ Finished(ren.active_transmissions, ren.frame) = <<>>
    /\ Len(ren'.events) = Len(ren.events)
    /\ ren'.active_links = ren.active_links

\* C13: in the render loop, a frame f after a frame f - 1 that has no
\* finalize event, starts no transmission and has the pending links of frame
\* f - 1 has needs_render false.
C13_QuietFrameNeedsNoRender == [][QuietFrame => ~ren'.needs_render]_vars

\* What the layers of a frame are built from.
SameRenderableState(before, after) ==
    /\ after.active_transmissions = before.active_transmissions
    /\ after.received_cells = before.received_cells
    /\ after.active_links = before.active_links
    /\ after.seen_links = before.seen_links

\* A step of the render loop that finalizes or starts a transmission.
EventFrame ==
    /\ RenderFrame
    /\ \/ Finished(ren.active_transmissions, ren.frame) # <<>>
       \/ Len(ren'.events) > Len(ren.events)

\* C14: in the render loop, a frame whose needs_render is false has the
\* renderable state of the frame before it (the on-air transmissions,
\* received_cells, the pending links and seen_links), and a frame in which a
\* transmission starts or is finalized has needs_render true.
C14_ReusedFrameIsIdentical ==
    /\ [][(RenderFrame /\ ~ren'.needs_render) => SameRenderableState(ren, ren')]_vars
    /\ [][EventFrame => ren'.needs_render]_vars

----------------------------------------------------------------------------
\* Properties of the population counter.

\* The population of a set of cells, a cell without a row counting zero.
RECURSIVE Reached(_)
Reached(cells) ==
    IF cells = {} THEN 0
    ELSE LET c == CHOOSE x \in cells : TRUE
         IN (IF c \in DOMAIN args.population THEN args.population[c] ELSE 0)
                + Reached(cells \ {c})

\* The cells of the transmissions on air in the render loop.
RenderOnAirCells(active_transmissions) ==
    UNION {{active_transmissions[i].cell_tiers[k][1] :
               k \in DOMAIN active_transmissions[i].cell_tiers} :
           i \in DOMAIN active_transmissions}

\* C15 as claimed: in every frame of both passes the cumulative population
\* reported is the population of exactly the cells in received_cells.
C15_Claimed_ReceivedCellsOnly ==
    /\ sim.cumulative_population = Reached(DOMAIN sim.received_cells)
    /\ ren.cumulative_population = Reached(DOMAIN ren.received_cells)

\* C15 as amended: in every frame the dry pass reports the population of the
\* cells in received_cells, and the render loop that of the cells in
\* received_cells together with the cells of the transmissions on air.
C15_ReceivedAndOnAirCells ==
    /\ sim.cumulative_population = Reached(DOMAIN sim.received_cells)
    /\ ren.cumulative_population =
           Reached(DOMAIN ren.received_cells \cup RenderOnAirCells(ren.active_transmissions))

\* The render loop counts a cell that is on air and not yet received, beside
\* a received one, one of the two without a population row.
C15_Witness ==
    /\ pc = "render"
    /\ DOMAIN ren.received_cells # {}
    /\ RenderOnAirCells(ren.active_transmissions) \ DOMAIN ren.received_cells # {}
    /\ ren.cumulative_population > Reached(DOMAIN ren.received_cells)
    /\ Cells \ DOMAIN args.population # {}

----------------------------------------------------------------------------
\* Properties of a run without tower links.

\* The cells the seed sees directly.
SeedCells ==
    {Get(args.visible_cells, args.seed_h3, <<>>)[k][1] :
        k \in DOMAIN Get(args.visible_cells, args.seed_h3, <<>>)}

\* C16 as claimed: with no tower link build_waves returns the single wave
\* [seed] and the simulation terminates immediately after frame 0, with the
\* cumulative population of the seed's directly visible cells.
C16_Claimed_EndsAfterFrameZero ==
    /\ waves = <<<<args.seed_h3>>>>
    /\ sim.returned =>
           /\ sim.frame = 1
           /\ sim.cumulative_population = Reached(SeedCells)

\* C16 as amended: with no tower link build_waves returns the single wave
\* [seed], the seed alone transmits, from frame 1, and the simulation
\* terminates immediately after the frame that finalizes that transmission,
\* not before, with the cumulative population of the seed's directly visible
\* cells; the render loop ends on the same population.
C16_EndsAfterSeedTransmission ==
    /\ waves = <<<<args.seed_h3>>>>
    /\ sim.returned =>
           /\ Len(sim.events) = 1
           /\ sim.events[1].tower_h3 = args.seed_h3
           /\ sim.events[1].start = 1
           /\ sim.frame = FinalizeFrame(sim.events[1]) + 1
           /\ sim.cumulative_population = Reached(SeedCells)
    /\ (sim.events # <<>> /\ sim.frame > FinalizeFrame(sim.events[1])) => sim.returned
    /\ pc = "done" => ren.cumulative_population = Reached(SeedCells)

\* A run without links has returned, the seed seeing cells with population.
C16_Witness ==
    /\ \A t \in DOMAIN args.tower_visibility : args.tower_visibility[t] = <<>>
    /\ pc = "done"
    /\ sim.returned
    /\ sim.frame > 3
    /\ Reached(SeedCells) > 0
    /\ sim.cumulative_population = Reached(SeedCells)

----------------------------------------------------------------------------
\* Properties of main's check of the tier thresholds.

\* Nothing of the fine expansion and of the two passes exists.
NothingSimulated ==
    /\ args.tier_thresholds_db = <<>>
    /\ sim = NotCreated
    /\ ren = NotCreated
    /\ rng_tape = <<>>
    /\ sim_trace = <<>>
    /\ ren_trace = <<>>

\* C17: when the threshold list does not hold exactly six values main raises
\* a fatal error before the fine expansion, the dry pass and any render
\* frame: no simulation state is created and no frame is simulated.
C17_WrongCountIsFatal ==
    /\ [](Len(call.thresholds) # 6 => pc \in {"thresholds", "fatal"} /\ NothingSimulated)
    /\ [][(pc = "thresholds" /\ Len(call.thresholds) # 6) => pc' = "fatal"]_vars
    /\ [](Len(call.thresholds) = 6 => pc # "fatal")

\* main has raised on a list of seven values.
C17_Witness ==
    /\ pc = "fatal"
    /\ Len(call.thresholds) = 7
    /\ NothingSimulated

----------------------------------------------------------------------------
\* Properties of assign_tier.

\* C18: assign_tier returns the index (from 0) of the first threshold that is
\* greater than or equal to the value and the length of the list when there
\* is none: 105 gives 1 and 999 gives 6 for [100, 110, 120, 130, 140, 150];
\* the result lies in 0..len(thresholds).
C18_FirstThresholdNotBelow ==
    call.returned =>
        /\ call.result \in 0..Len(call.thresholds)
        /\ \A j \in 1..call.result : call.thresholds[j] < call.path_loss_db
        /\ call.result < Len(call.thresholds) =>
               call.thresholds[call.result + 1] >= call.path_loss_db
        /\ (call.thresholds = <<100, 110, 120, 130, 140, 150>> /\ call.path_loss_db = 105)
               => call.result = 1
        /\ (call.thresholds = <<100, 110, 120, 130, 140, 150>> /\ call.path_loss_db = 999)
               => call.result = 6

\* A value equal to the second threshold of a list that is not ascending and
\* holds a smaller threshold later.
C18_Witness ==
    /\ call.returned
    /\ call.thresholds = <<120, 110, 100>>
    /\ call.path_loss_db = 110
    /\ call.result = 0

\* The example list with a value above all its thresholds.
C18_WitnessExample ==
    /\ call.returned
    /\ call.thresholds = ExampleThresholds
    /\ call.path_loss_db = 999
    /\ call.result = 6

----------------------------------------------------------------------------
\* Properties of build_fine_thresholds.

Ascending(s) == \A i \in 1..(Len(s) - 1) : s[i] <= s[i + 1]

\* Thresholds at the odd places (counted from 1), midpoints between them.
Interleaved(thresholds, fine) ==
    /\ \A i \in 1..Len(thresholds) : fine[2 * i - 1] = thresholds[i]
    /\ \A i \in 1..(Len(thresholds) - 1) :
           2 * fine[2 * i] = thresholds[i] + thresholds[i + 1]

\* C19 as claimed: for every threshold list of length N the result has
\* exactly 2N-1 values, its first and last are those of the input, the input
\* values alternate with the midpoints of adjacent inputs, and it is
\* non-decreasing; the input list is not modified.
C19_Claimed_EveryList ==
    /\ [](call.returned =>
            /\ Len(call.result) = 2 * Len(call.thresholds) - 1
            /\ call.result[1] = call.thresholds[1]
            /\ call.result[Len(call.result)] = call.thresholds[Len(call.thresholds)]
            /\ Interleaved(call.thresholds, call.result)
            /\ Ascending(call.result))
    /\ [][call'.thresholds = call.thresholds]_vars

\* C19 as amended: for every non-empty threshold list of length N the result
\* has exactly 2N-1 values, its first and last are those of the input, and
\* the input values alternate with the midpoints of adjacent inputs; the
\* result is non-decreasing when the input is; the empty list gives the
\* empty list; the input list is not modified.
C19_NonEmptyLists ==
    /\ []((call.returned /\ call.thresholds # <<>>) =>
            /\ Len(call.result) = 2 * Len(call.thresholds) - 1
            /\ call.result[1] = call.thresholds[1]
            /\ call.result[Len(call.result)] = call.thresholds[Len(call.thresholds)]
            /\ Interleaved(call.thresholds, call.result)
            /\ Ascending(call.thresholds) => Ascending(call.result))
    /\ []((call.returned /\ call.thresholds = <<>>) => call.result = <<>>)
    /\ [][call'.thresholds = call.thresholds]_vars

\* An ascending list of three thresholds has been expanded to five values.
C19_Witness ==
    /\ call.returned
    /\ call.thresholds = <<100, 104, 120>>
    /\ call.result = <<100, 102, 104, 112, 120>>

----------------------------------------------------------------------------
\* Properties of estimate_airtime_seconds.

\* The least integer that is not below n / d, for d > 0.
Ceiling(n, d) ==
    CHOOSE k \in -12..(MaxPayload + 12) : k * d >= n /\ (k - 1) * d < n

\* The symbol duration 2^SF / bandwidth exceeds 16 ms.
LongSymbol(radio) == 2^radio.spreading_factor * 1000 > 16 * radio.bandwidth_khz * 1000

\* The rounded quotient of the payload formula.
PayloadQuotient(radio) ==
    Ceiling(8 * radio.payload_bytes - 4 * radio.spreading_factor + 28
                + 16 * radio.crc_enabled - 20 * radio.implicit_header,
            4 * (radio.spreading_factor - 2 * (IF LongSymbol(radio) THEN 1 ELSE 0)))

\* (preamble_symbols + 4.25 + 8 + P) * 2^SF / bandwidth_Hz
AirtimeWith(radio, P) ==
    [quarter_symbols |-> 4 * radio.preamble_symbols + 17 + 32 + 4 * P,
     two_to_sf |-> 2^radio.spreading_factor,
     bandwidth_hz |-> 1000 * radio.bandwidth_khz]

\* C20 as claimed: the airtime is (preamble_symbols + 4.25 + 8 + P) * 2^SF /
\* bandwidth_Hz with P the rounded quotient times (coding_rate - 4), not
\* below 0, and ldro = 1 exactly when the symbol lasts more than 16 ms
\* (stated for the coding rates 5..8).
C20_Claimed_CodingRateMinusFour ==
    (call.returned /\ call.radio.coding_rate \in 5..8) =>
        call.result = AirtimeWith(call.radio,
            Max2(PayloadQuotient(call.radio) * (call.radio.coding_rate - 4), 0))

\* C20 as amended: the same with P the rounded quotient times the coding
\* rate itself, limited to 5..8.
C20_CodingRateItself ==
    call.returned =>
        call.result = AirtimeWith(call.radio,
            Max2(PayloadQuotient(call.radio)
                    * (IF call.radio.coding_rate < 5 THEN 5
                       ELSE IF call.radio.coding_rate > 8 THEN 8
                       ELSE call.radio.coding_rate), 0))

\* SF 11, 250 kHz, CR 5, 160 bytes, preamble 8, CRC on, explicit header:
\* 30 * 5 payload symbols, 170.25 symbols of 2048 / 250000 s.
C20_Witness ==
    /\ call.returned
    /\ call.radio = [spreading_factor |-> 11, bandwidth_khz |-> 250, coding_rate |-> 5,
                     payload_bytes |-> 160, preamble_symbols |-> 8, crc_enabled |-> 1,
                     implicit_header |-> 0]
    /\ call.result = [quarter_symbols |-> 681, two_to_sf |-> 2048, bandwidth_hz |-> 250000]

----------------------------------------------------------------------------
\* Airtime against the spreading factor.

\* An airtime of the model is above zero.
PositiveAirtime(airtime) ==
    /\ airtime.quarter_symbols > 0
    /\ airtime.two_to_sf > 0
    /\ airtime.bandwidth_hz > 0

\* Airtime a is below airtime b, the two of one bandwidth.
ShorterAirtime(a, b) ==
    /\ a.bandwidth_hz = b.bandwidth_hz
    /\ a.quarter_symbols * a.two_to_sf < b.quarter_symbols * b.two_to_sf

\* C21: for spreading factors 7..12, a positive bandwidth, coding rates 5..8,
\* a payload and a preamble of 0 or more and flags of 0 or 1 the airtime is
\* above zero, and one spreading factor up, all else equal, it is strictly
\* greater.
C21_AirtimeGrowsWithSF ==
    /\ call.returned => PositiveAirtime(call.result)
    /\ pc = "compared" =>
           /\ PositiveAirtime(call.next_result)
           /\ ShorterAirtime(call.result, call.next_result)

\* Spreading factor 11 against 12 at 250 kHz, where the low data rate
\* optimisation comes on, with a payload of 16 bytes.
C21_Witness ==
    /\ pc = "compared"
    /\ call.radio.spreading_factor = 11
    /\ call.radio.bandwidth_khz = 250
    /\ call.radio.payload_bytes = 16
    /\ call.result.two_to_sf = 2048
    /\ call.next_result.two_to_sf = 4096
    /\ ShorterAirtime(call.result, call.next_result)

----------------------------------------------------------------------------
\* The inputs across a run.

\* The lists a transmission record refers to are those of its tower in the
\* inputs.
DryRecordsReferInputs ==
    \A i \in DOMAIN sim.active_transmissions :
        LET t == sim.active_transmissions[i]
        IN /\ t.cell_losses = Get(args.visible_cells, t.tower_h3, <<>>)
           /\ t.audible_pairs = Get(args.tower_visibility, t.tower_h3, <<>>)

RenderRecordsReferInputs ==
    \A i \in DOMAIN ren.active_transmissions :
        LET t == ren.active_transmissions[i]
            cells == Get(args.visible_cells, t.tower_h3, <<>>)
        IN /\ t.audible_pairs = Get(args.tower_visibility, t.tower_h3, <<>>)
           /\ Len(t.cell_tiers) = Len(cells)
           /\ \A k \in DOMAIN cells :
                  /\ t.cell_tiers[k][1] = cells[k][1]
                  /\ t.cell_tiers[k][4] = cells[k][2]

\* C22: no step of build_waves, the dry pass or the render loop changes its
\* inputs: adjacency, tower_visibility, visible_cells and population stay as
\* before the run and tower_hops as main built it, and the lists the
\* transmission records refer to stay those of the inputs.
C22_InputsUnchanged ==
    /\ [][args' = args]_vars
    /\ [][pc # "build_waves" => tower_hops' = tower_hops]_vars
    /\ [](pc # "build_waves" =>
             tower_hops = HopMap(build_waves(args.seed_h3, args.adjacency, args.hop_limit)))
    /\ [](DryRecordsReferInputs /\ RenderRecordsReferInputs)

\* The render loop has counted a cell without a population row while a
\* transmission with cells and audible towers is on air.
C22_Witness ==
    /\ pc = "render"
    /\ ren.frame > 1
    /\ ren.effective_cells \ DOMAIN args.population # {}
    /\ \E i \in DOMAIN ren.active_transmissions :
           /\ ren.active_transmissions[i].cell_tiers # <<>>
           /\ ren.active_transmissions[i].audible_pairs # <<>>

----------------------------------------------------------------------------
\* Properties of build_schedule.

\* The places in the schedule of the first and last tower of wave w.
RECURSIVE TowersBefore(_)
TowersBefore(w) == IF w <= 1 THEN 0 ELSE TowersBefore(w - 1) + Len(waves[w - 1])

FirstEntry(w) == TowersBefore(w) + 1

LastEntry(w) == TowersBefore(w) + Len(waves[w])

\* One entry per tower, in the order of the waves.
EntryPerTower(schedule) ==
    /\ Len(schedule) = TowersBefore(Len(waves) + 1)
    /\ \A w \in DOMAIN waves : \A k \in DOMAIN waves[w] :
           schedule[TowersBefore(w) + k][1] = waves[w][k]

\* Back to back within a wave, none over another, each of airtime plus a
\* jitter of 0..jitter_s.
Sequential(schedule) ==
    /\ \A w \in DOMAIN waves : \A k \in (FirstEntry(w) + 1)..LastEntry(w) :
           schedule[k][2] = schedule[k - 1][3]
    /\ \A k \in 2..Len(schedule) : schedule[k][2] >= schedule[k - 1][3]
    /\ \A k \in DOMAIN schedule :
           /\ schedule[k][3] - schedule[k][2] >= call.airtime_s
           /\ schedule[k][3] - schedule[k][2] <= call.airtime_s + call.config.jitter_s

\* The start of the wave after w, by the time wave w took.
Paced(schedule, w) ==
    LET wave_start == schedule[FirstEntry(w)][2]
        wave_end == schedule[LastEntry(w)][3]
        took == wave_end - wave_start
        next_start == schedule[FirstEntry(w + 1)][2]
    IN IF took < call.config.wave_min_s
       THEN next_start = wave_start + call.config.wave_min_s
       ELSE IF took < call.config.wave_max_s
       THEN next_start >= wave_end /\ next_start <= wave_start + call.config.wave_max_s
       ELSE next_start = wave_end

\* C23: build_schedule emits one entry per tower in wave order with
\* intervals that do not overlap: within a wave each entry starts when the
\* previous one ends and lasts airtime to airtime + jitter_s; the next wave
\* starts at wave start + wave_min_s after a wave shorter than wave_min_s,
\* between the wave's end and wave start + wave_max_s after one shorter than
\* wave_max_s, and at the wave's end otherwise.
C23_ScheduleIsSequential ==
    call.returned =>
        /\ EntryPerTower(call.result)
        /\ Sequential(call.result)
        /\ \A w \in 1..(Len(waves) - 1) : Paced(call.result, w)

\* Three waves: the first shorter than wave_min_s, the second between
\* wave_min_s and wave_max_s and followed by a gap.
C23_Witness ==
    /\ call.returned
    /\ Len(waves) = 3
    /\ call.config.wave_min_s = 3
    /\ call.config.wave_max_s = 5
    /\ call.result[1][3] - call.result[1][2] < 3
    /\ call.result[2][2] = 3
    /\ call.result[2][3] - call.result[2][2] = 3
    /\ call.result[3][2] > call.result[2][3]

\* C30: for waves produced by build_waves the hop_index of every entry of
\* build_schedule is the index of the wave that holds its tower, the tower's
\* value in the hop map (0 for the seed).
C30_HopIndexIsHopMapValue ==
    call.returned =>
        \A k \in DOMAIN call.result : call.result[k][4] = tower_hops[call.result[k][1]]

----------------------------------------------------------------------------
\* Properties of the link history of the render loop.

\* C24: across the frames of a render run seen_links never loses a pair, and
\* seen_links_version never decreases and grows by one for each pair that is
\* new to seen_links, so it always equals the size of seen_links.
C24_SeenLinksOnlyGrow ==
    /\ [](ren.seen_links_version = Cardinality(ren.seen_links))
    /\ [][/\ ren.seen_links \subseteq ren'.seen_links
          /\ ren'.seen_links_version >= ren.seen_links_version
          /\ ren'.seen_links_version - ren.seen_links_version
                 = Cardinality(ren'.seen_links \ ren.seen_links)]_vars

\* Two pairs are in seen_links, and a finalized transmission has reached a
\* tower that had transmitted before, which adds no pair.
C24_Witness ==
    /\ ren.seen_links_version = 2
    /\ Cardinality(ren.seen_links) = 2
    /\ \E t \in ren.transmitted_towers :
           \E k \in DOMAIN Get(args.tower_visibility, t, <<>>) :
               /\ args.tower_visibility[t][k][1] \in ren.transmitted_towers
               /\ <<t, args.tower_visibility[t][k][1]>> \notin ren.seen_links

----------------------------------------------------------------------------
\* Properties of received_cells and of the hop tags.

\* The path losses with which the finalized transmissions cover a cell.
LossesOf(cell_h3, transmitted_towers) ==
    {loss \in PathLoss :
        \E t \in transmitted_towers \cap DOMAIN args.visible_cells :
            \E k \in DOMAIN args.visible_cells[t] :
                args.visible_cells[t][k] = <<cell_h3, loss>>}

Least(S) == CHOOSE x \in S : \A y \in S : x <= y

\* received_cells holds the cells the finalized transmissions cover, each
\* with the least path loss among them.
BestLossPerCell(st) ==
    /\ DOMAIN st.received_cells = {c \in Cells : LossesOf(c, st.transmitted_towers) # {}}
    /\ \A c \in DOMAIN st.received_cells :
           st.received_cells[c] = Least(LossesOf(c, st.transmitted_towers))

\* A cell stays received and its path loss does not rise.
LossNeverRises(before, after) ==
    \A c \in DOMAIN before.received_cells :
        /\ c \in DOMAIN after.received_cells
        /\ after.received_cells[c] <= before.received_cells[c]

\* The hops a cell is tagged with.
TagsOf(hop_reached, cell_h3) == {hop \in DOMAIN hop_reached : cell_h3 \in hop_reached[hop]}

\* Every received cell has one tag, the hop of a finalized transmission that
\* covers it, and no other cell has any.
OneTagPerCell(st) ==
    /\ \A c \in DOMAIN st.received_cells :
           /\ Cardinality(TagsOf(st.hop_reached, c)) = 1
           /\ \E t \in st.transmitted_towers \cap DOMAIN args.visible_cells :
                  /\ \E k \in DOMAIN args.visible_cells[t] : args.visible_cells[t][k][1] = c
                  /\ TagsOf(st.hop_reached, c) = {tower_hops[t]}
    /\ \A c \in Cells \ DOMAIN st.received_cells : TagsOf(st.hop_reached, c) = {}

\* A tag is given in the step that first receives the cell and is kept.
TagsGivenOnce(before, after) ==
    \A c \in Cells :
        IF c \in DOMAIN before.received_cells
        THEN TagsOf(after.hop_reached, c) = TagsOf(before.hop_reached, c)
        ELSE TagsOf(before.hop_reached, c) = {}

\* C25: after any number of frames the keys of received_cells are the cells
\* covered by some finalized transmission, each with the least path loss
\* among the finalized transmissions that cover it; a stored path loss never
\* rises; in the render loop a cell is tagged with a hop only in the
\* finalize that first receives it and the tag never changes.
C25_BestLossAndFirstHop ==
    /\ [](BestLossPerCell(sim) /\ BestLossPerCell(ren) /\ OneTagPerCell(ren))
    /\ [][LossNeverRises(sim, sim') /\ LossNeverRises(ren, ren')
              /\ TagsGivenOnce(ren, ren')]_vars

\* A cell received at 120 from the seed has been lowered to 110 by a later
\* transmission of hop 1 and keeps its tag of hop 0.
C25_Witness ==
    /\ pc = "render"
    /\ 101 \in DOMAIN ren.received_cells
    /\ ren.received_cells[101] = 110
    /\ 120 \in LossesOf(101, {args.seed_h3})
    /\ Cardinality(ren.transmitted_towers) >= 2
    /\ TagsOf(ren.hop_reached, 101) = {0}

----------------------------------------------------------------------------
\* Properties of received_towers and received_quality.

\* The path losses with which the finalized transmissions reach a tower.
HeardWith(tower_h3, transmitted_towers) ==
    {loss \in PathLoss :
        \E t \in transmitted_towers \cap DOMAIN args.tower_visibility :
            \E k \in DOMAIN args.tower_visibility[t] :
                args.tower_visibility[t][k] = <<tower_h3, loss>>}

Greatest(S) == CHOOSE x \in S : \A y \in S : x >= y

\* The received towers are the seed and the towers some finalized
\* transmission reaches, each with a quality, the largest path loss with
\* which it was reached when it is not the seed.
WorstLossPerTower(st) ==
    /\ st.received_towers =
           {args.seed_h3} \cup {t \in Towers : HeardWith(t, st.transmitted_towers) # {}}
    /\ DOMAIN st.received_quality = st.received_towers
    /\ \A t \in st.received_towers \ {args.seed_h3} :
           st.received_quality[t] = Greatest(HeardWith(t, st.transmitted_towers))

QualityNeverFalls(before, after) ==
    \A t \in DOMAIN before.received_quality :
        /\ t \in DOMAIN after.received_quality
        /\ after.received_quality[t] >= before.received_quality[t]

\* C26: after any number of frames received_towers is the seed plus every
\* tower that some finalized transmission lists as audible, every member has
\* a received_quality, that of a tower other than the seed being the path
\* loss of its first hearing raised to the largest path loss of a later
\* finalized transmission that reached it; received_quality never decreases.
C26_WorstLossHeard ==
    /\ [](WorstLossPerTower(sim) /\ WorstLossPerTower(ren))
    /\ [][QualityNeverFalls(sim, sim') /\ QualityNeverFalls(ren, ren')]_vars

\* A tower first heard from the seed at 110 and later from another tower at
\* 120 holds 120, in both passes.
C26_Witness ==
    \E t \in Towers \ {args.seed_h3} :
        /\ 110 \in HeardWith(t, {args.seed_h3})
        /\ 120 \in HeardWith(t, ren.transmitted_towers \ {args.seed_h3})
        /\ ren.received_quality[t] = 120
        /\ sim.received_quality[t] = 120

----------------------------------------------------------------------------
\* When a transmission takes effect.  The airtime is above zero, so the
\* first frame whose time is at or after a transmission's end comes after
\* the frame of its start.

\* The towers whose transmission ended at or before the last frame run.
Ended(st) ==
    {st.events[i].tower_h3 : i \in {k \in DOMAIN st.events : st.events[k].end <= st.frame - 1}}

\* The cells and the audible towers of the ended transmissions, and of no
\* other, are committed.
CommittedWhenEnded(st) ==
    /\ st.transmitted_towers = Ended(st)
    /\ ActiveTowers(st.active_transmissions)
           = {st.events[i].tower_h3 : i \in DOMAIN st.events} \ Ended(st)
    /\ DOMAIN st.received_cells = {c \in Cells : LossesOf(c, Ended(st)) # {}}
    /\ st.received_towers = {args.seed_h3} \cup {t \in Towers : HeardWith(t, Ended(st)) # {}}

\* A tower other than the seed starts no earlier than the frame at which a
\* transmission that reaches it has ended; the seed starts first, at frame 1.
StartsAfterHearing(events) ==
    /\ \A i \in DOMAIN events :
           events[i].tower_h3 # args.seed_h3 =>
               \E j \in DOMAIN events :
                   /\ HeardWith(events[i].tower_h3, {events[j].tower_h3}) # {}
                   /\ events[j].end <= events[i].start
    /\ events # <<>> => events[1].tower_h3 = args.seed_h3 /\ events[1].start = 1

\* C27: a transmission's cells and audible neighbours are committed only
\* when it is finalized, at the first frame whose time is at or after its
\* end, and finalize runs before selection in the frame: a tower other than
\* the seed starts no earlier than the frame in which a transmission that
\* lists it as audible is finalized, and the seed transmits first, at frame 1.
C27_EffectAtFinalize ==
    args.airtime_s > 0 =>
        /\ CommittedWhenEnded(sim)
        /\ CommittedWhenEnded(ren)
        /\ StartsAfterHearing(sim.events)
        /\ StartsAfterHearing(ren.events)

\* A tower starts in the very frame that finalizes the seed's transmission,
\* the first to reach it.
C27_Witness ==
    /\ args.airtime_s > 0
    /\ Len(ren.events) >= 2
    /\ ren.events[2].start = ren.events[1].end
    /\ HeardWith(ren.events[2].tower_h3, {args.seed_h3}) # {}
    /\ Len(sim.events) >= 2
    /\ sim.events[2].start = sim.events[1].end

----------------------------------------------------------------------------
\* Properties of the hop breakdown of a render frame.

\* The cells counted under a hop in the frame.
HopCells(hop) == Get(ren.effective_hop_reached, hop, {})

RECURSIVE HopValuesUpTo(_)
HopValuesUpTo(hop) ==
    IF hop < 0 THEN 0 ELSE Reached(HopCells(hop)) + HopValuesUpTo(hop - 1)

\* C28: in every render frame the per-hop cell sets of the hop breakdown
\* are pairwise disjoint and their union is the set of cells counted as
\* reached, so the per-hop populations over hops 0..hop_limit sum to the
\* cumulative population of the frame; on frame 1 only the seed is on air
\* and the hop-0 value equals the cumulative population.
C28_HopBreakdownPartitions ==
    /\ \A h1, h2 \in DOMAIN ren.effective_hop_reached :
           h1 # h2 => HopCells(h1) \cap HopCells(h2) = {}
    /\ UNION {HopCells(h) : h \in DOMAIN ren.effective_hop_reached} = ren.effective_cells
    /\ DOMAIN ren.effective_hop_reached \subseteq 0..args.hop_limit
    /\ HopValuesUpTo(args.hop_limit) = ren.cumulative_population
    /\ ren.frame = 2 =>
           /\ ActiveTowers(ren.active_transmissions) = {args.seed_h3}
           /\ Reached(HopCells(0)) = ren.cumulative_population

\* A frame with cells and population under hop 0 and under hop 1, one cell
\* seen by towers of both hops.
C28_Witness ==
    /\ pc = "render"
    /\ ren.frame > 2
    /\ Reached(HopCells(0)) > 0
    /\ Reached(HopCells(1)) > 0
    /\ ren.active_transmissions # <<>>
    /\ \E i \in DOMAIN ren.active_transmissions :
           /\ ren.active_transmissions[i].hop = 1
           /\ \E k \in DOMAIN ren.active_transmissions[i].cell_tiers :
                  ren.active_transmissions[i].cell_tiers[k][1] \in HopCells(0)

----------------------------------------------------------------------------
\* The peak of the dry pass against the render loop.

\* C29: with populations of 0 and more and generators seeded alike, the
\* cumulative population of any render frame (received plus on-air cells)
\* never exceeds the max_population the uncapped dry pass returned, whatever
\* the cut of --max-frames, and equals it on the last frame of a render
\* that is not cut.
C29_RenderWithinDryPeak ==
    /\ pc \in {"render", "done"} =>
           /\ ren.cumulative_population <= sim.max_population
           /\ \A i \in DOMAIN ren_trace :
                  ren_trace[i].cumulative_population <= sim.max_population
    /\ (pc = "done" /\ ren.total_frames = sim.frame) =>
           ren.cumulative_population = sim.max_population

\* A full render with a drawn jitter has ended on the peak, above the count
\* of an earlier frame that had cells on air.
C29_Witness ==
    /\ pc = "done"
    /\ args.max_frames = 0
    /\ ren.total_frames = sim.frame
    /\ \E n \in DOMAIN rng_tape : rng_tape[n] = 1
    /\ sim.max_population > 0
    /\ ren.cumulative_population = sim.max_population
    /\ \E i \in DOMAIN ren_trace :
           /\ ren_trace[i].on_air # {}
           /\ ren_trace[i].cumulative_population > 0
           /\ ren_trace[i].cumulative_population < sim.max_population

\* A render cut to three frames stays below the peak.
C29_WitnessCut ==
    /\ pc = "done"
    /\ args.max_frames = 3
    /\ ren.total_frames < sim.frame
    /\ ren.cumulative_population < sim.max_population

====
